---- MODULE Spec2Model ----
(***************************************************************************)
(* Model of the dashboard's resource clients (useUsers, useProducts,       *)
(* useOrders) and of the add / edit / delete / detail / list views that    *)
(* drive them.  A behaviour follows ONE entity type (the variable ent,     *)
(* fixed by Init): the three clients are separate modules that share no    *)
(* state, so each is explored on its own.                                  *)
(*                                                                         *)
(* JavaScript values are tagged records, so that truthiness (!x, x || y),  *)
(* undefined, null, 0 and '' keep their meaning.  An object is a record    *)
(* without the tag field t.                                                *)
(***************************************************************************)
EXTENDS Integers, Sequences, FiniteSets, Bags, TLC

VARIABLES ent, allItems, currentItem, loading, error, inflight, cont, route,
          initialFormState, mode, formState, refs, stores, search, last

vars == <<ent, allItems, currentItem, loading, error, inflight, cont, route,
          initialFormState, mode, formState, refs, stores, search, last>>

(***************************************************************************)
(* Bounds of the model                                                     *)
(***************************************************************************)
\* entity ids the backend hands out are 0..MaxId (0 is the falsy id)
MaxId == 1
\* longest collection the backend returns from a list request
MaxLen == 1
\* most requests of the entity that are pending at the same time
MaxInFlight == 2
\* longest product list of a fetched order
MaxProducts == 2
\* most requests pending at the same time when two components hold a client
MaxPending == 1

(***************************************************************************)
(* JavaScript values                                                       *)
(***************************************************************************)
Undefined == [t |-> "undefined"]
Null == [t |-> "null"]
NaN == [t |-> "NaN"]
Num(n) == [t |-> "number", v |-> n]
Str(s) == [t |-> "string", v |-> s]
Bool(b) == [t |-> "boolean", v |-> b]
Arr(q) == [t |-> "array", v |-> q]

IsObject(x) == "t" \notin DOMAIN x

\* ToBoolean: what `if (x)`, `!x` and `x || y` test
Truthy(x) ==
    IF IsObject(x) THEN TRUE
    ELSE CASE x.t = "undefined" -> FALSE
           [] x.t = "null"      -> FALSE
           [] x.t = "NaN"       -> FALSE
           [] x.t = "number"    -> x.v # 0
           [] x.t = "string"    -> x.v # ""
           [] x.t = "boolean"   -> x.v
           [] OTHER             -> TRUE

\* a || b
OrElse(a, b) == IF Truthy(a) THEN a ELSE b

\* JSON.stringify of an object: properties whose value is undefined are left out
JSONStringify(p) == [f \in {g \in DOMAIN p : p[g] # Undefined} |-> p[f]]

\* parseInt of a route parameter: the decimal strings of the ids parse, the rest is NaN
ParseInt(str) ==
    IF \E n \in 0..MaxId : ToString(n) = str
    THEN Num(CHOOSE n \in 0..MaxId : ToString(n) = str)
    ELSE NaN

\* a number used as a route parameter becomes its decimal string
ToParam(x) == IF x.t = "number" THEN ToString(x.v) ELSE "undefined"

(***************************************************************************)
(* Entities                                                                *)
(***************************************************************************)
Entities == {"users", "products", "orders"}
Ids == 0..MaxId

User(i) == [id |-> Num(i), firstName |-> Str("Ann"), email |-> Str("ann@x")]
Product(i) == [id |-> Num(i), productName |-> Str("Laptop")]
Order(i) == [id |-> Num(i), orderOwner |-> User(i),
             orderProducts |-> Arr(<<Product(i)>>)]

Item(e, i) == CASE e = "users" -> User(i)
                [] e = "products" -> Product(i)
                [] e = "orders" -> Order(i)

Items(e) == {Item(e, i) : i \in Ids}

\* the collections a list response can carry: every sequence of items up to MaxLen
Lists(e) == {Arr(q) : q \in UNION {[1..n -> Items(e)] : n \in 0..MaxLen}}

(***************************************************************************)
(* HTTP responses                                                          *)
(***************************************************************************)
Statuses == {200, 201, 204, 404}
NoBody == [t |-> "nobody"]
TypeError == [name |-> "TypeError", message |-> Str("Failed to fetch")]
SyntaxError == [name |-> "SyntaxError", message |-> Str("Unexpected end of JSON input")]

\* what the backend may put in the body of a 200/201 answer to each operation
Bodies(e, op) == CASE op = "fetchAll" -> Lists(e)
                   [] op = "delete"  -> {Null}
                   [] OTHER          -> Items(e)

\* fetch() rejects (transport failure), or resolves with a status; a 200/201
\* body may be JSON or not, 204 carries no body, and an error body is not JSON
Responses(e, op) ==
    {[kind |-> "reject", status |-> 0, readable |-> FALSE, body |-> NoBody]}
    \cup {[kind |-> "http", status |-> st, readable |-> FALSE, body |-> NoBody]
            : st \in Statuses}
    \cup {[kind |-> "http", status |-> st, readable |-> TRUE, body |-> b]
            : st \in {200, 201}, b \in Bodies(e, op)}

\* response.ok
ResponseOk(r) == r.status >= 200 /\ r.status <= 299

(***************************************************************************)
(* Error messages: the template of each throw, with the status it embeds   *)
(***************************************************************************)
Noun(e) == CASE e = "users" -> "user" [] e = "products" -> "product"
             [] e = "orders" -> "order"

StatusMessage(text, status) == [t |-> "string", v |-> text, status |-> status]

Error(message) == [name |-> "Error", message |-> message]

\* the fallback of `err.message || '...'`, where the catch block has one
Fallback(e, op) ==
    CASE op = "fetchAll" -> Str("Failed to fetch " \o e \o ".")
      [] op = "fetchById" /\ e = "products" -> Str("Failed to fetch product.")
      [] OTHER -> Undefined

\* catch (err: any) { error.value = err.message [|| fallback] }
CatchMessage(e, op, err) ==
    IF Fallback(e, op) = Undefined THEN err.message
    ELSE OrElse(err.message, Fallback(e, op))

(***************************************************************************)
(* The resource client.  Each operation runs in two steps: the part before *)
(* `await fetch(...)` (Start) and the part after the response (Settle).    *)
(* Operators work on a record s of the program state, so that a handler    *)
(* can chain them.                                                         *)
(***************************************************************************)
State == [allItems |-> allItems, currentItem |-> currentItem,
          loading |-> loading, error |-> error, inflight |-> inflight,
          route |-> route, initialFormState |-> initialFormState]

Request(method, path, body) == [method |-> method, path |-> path, body |-> body]

\* a pending call: the operation, its argument, who awaits it, the request it
\* sent; solo and held are history (no other call overlapped it so far; the
\* current item when it was called)
Call(s, op, arg, caller, request) ==
    [op |-> op, arg |-> arg, caller |-> caller, request |-> request,
     solo |-> s.inflight = EmptyBag, held |-> s.currentItem]

Overlapped(c) == [c EXCEPT !.solo = FALSE]

\* fetch(...) is issued: the request joins the bag of pending requests, where it
\* stays until the backend answers
Issue(s, call) ==
    [s EXCEPT !.inflight = BagOfAll(Overlapped, @) (+) SetToBag({call})]

Threw(err) == [threw |-> TRUE, err |-> err, data |-> Undefined]
Got(data) == [threw |-> FALSE, err |-> Error(Undefined), data |-> data]

\* faulty variant: only the errors the operation throws itself are caught
CatchesOnlyError(err) == err.name = "Error"

\* catch (err: any): every exception of the try block is caught
Catches(err) == TRUE

\* faulty variant: no finally block
FinallyMissing(s) == s

\* faulty variant: loading is cleared when no other request is pending
FinallyWhenIdle(s) == [s EXCEPT !.loading = s.inflight # EmptyBag]

\* finally { loading.value = false }
Finally(s) == [s EXCEPT !.loading = FALSE]

\* the catch block followed by finally; retv is what the catch block returns
Caught(s, op, err, retv) ==
    IF Catches(err)
    THEN [state |-> Finally([s EXCEPT !.error = CatchMessage(ent, op, err)]),
          ret |-> retv, raised |-> FALSE]
    ELSE [state |-> Finally(s), ret |-> Undefined, raised |-> TRUE]

\* faulty variant: an operation that succeeds clears the error
SettledClearing(s, retv) ==
    [state |-> Finally([s EXCEPT !.error = Null]), ret |-> retv, raised |-> FALSE]

Settled(s, retv) == [state |-> Finally(s), ret |-> retv, raised |-> FALSE]

\* ---- fetchAll ----------------------------------------------------------
fetchAllStart(s, caller) ==
    Issue([s EXCEPT !.loading = TRUE, !.error = Null],
          Call(s, "fetchAll", Undefined, caller,
               Request("GET", <<ent, "list">>, Undefined)))

fetchAllTry(r) ==
    IF r.kind = "reject" THEN Threw(TypeError)
    ELSE IF ~ResponseOk(r)
         THEN Threw(Error(StatusMessage("HTTP error! Status: ", r.status)))
    ELSE IF ~r.readable THEN Threw(SyntaxError)
    ELSE Got(r.body)

\* faulty variants: the response is appended to the collection; a failure
\* empties the collection
fetchAllSettleMerging(s, r) ==
    LET t == fetchAllTry(r) IN
    IF t.threw THEN Caught(s, "fetchAll", t.err, Undefined)
    ELSE Settled([s EXCEPT !.allItems = Arr(@.v \o t.data.v)], Undefined)

fetchAllSettleClearing(s, r) ==
    LET t == fetchAllTry(r) IN
    IF t.threw
    THEN Caught([s EXCEPT !.allItems = Arr(<<>>)], "fetchAll", t.err, Undefined)
    ELSE Settled([s EXCEPT !.allItems = t.data], Undefined)

fetchAllSettle(s, r) ==
    LET t == fetchAllTry(r) IN
    IF t.threw THEN Caught(s, "fetchAll", t.err, Undefined)
    ELSE Settled([s EXCEPT !.allItems = t.data], Undefined)

\* ---- fetchById ---------------------------------------------------------
\* faulty variant: the current item is kept while the request is pending
fetchByIdStartKeeping(s, id, caller) ==
    Issue([s EXCEPT !.loading = TRUE, !.error = Null],
          Call(s, "fetchById", id, caller,
               Request("GET", <<ent, "show", id>>, Undefined)))

fetchByIdStart(s, id, caller) ==
    Issue([s EXCEPT !.loading = TRUE, !.error = Null, !.currentItem = Null],
          Call(s, "fetchById", id, caller,
               Request("GET", <<ent, "show", id>>, Undefined)))

fetchByIdTry(r) ==
    IF r.kind = "reject" THEN Threw(TypeError)
    ELSE IF ~ResponseOk(r)
         THEN Threw(Error(StatusMessage(Noun(ent) \o " not found or API error",
                                        r.status)))
    ELSE IF ~r.readable THEN Threw(SyntaxError)
    ELSE Got(r.body)

\* faulty variant: a response is dropped while another request is pending
fetchByIdSettleFenced(s, r) ==
    LET t == fetchByIdTry(r) IN
    IF t.threw THEN Caught(s, "fetchById", t.err, Undefined)
    ELSE IF s.inflight # EmptyBag THEN Settled(s, Undefined)
    ELSE Settled([s EXCEPT !.currentItem = t.data], Undefined)

fetchByIdSettle(s, r) ==
    LET t == fetchByIdTry(r) IN
    IF t.threw THEN Caught(s, "fetchById", t.err, Undefined)
    ELSE Settled([s EXCEPT !.currentItem = t.data], Undefined)

\* ---- create ------------------------------------------------------------
createStart(s, payload, caller) ==
    Issue([s EXCEPT !.loading = TRUE, !.error = Null, !.currentItem = Null],
          Call(s, "create", payload, caller,
               Request("POST", <<ent, "add">>, JSONStringify(payload))))

\* faulty variant: every 2xx status counts as success
createTryAnyOk(r) ==
    IF r.kind = "reject" THEN Threw(TypeError)
    ELSE IF ~ResponseOk(r)
         THEN Threw(Error(StatusMessage("Failed to create a new " \o Noun(ent),
                                        r.status)))
    ELSE IF ~r.readable THEN Threw(SyntaxError)
    ELSE Got(r.body)

createTry(r) ==
    IF r.kind = "reject" THEN Threw(TypeError)
    ELSE IF r.status # 201 /\ r.status # 200
         THEN Threw(Error(StatusMessage("Failed to create a new " \o Noun(ent),
                                        r.status)))
    ELSE IF ~r.readable THEN Threw(SyntaxError)
    ELSE Got(r.body)

\* faulty variant: the created entity is appended to the collection
createSettleAppending(s, r) ==
    LET t == createTry(r) IN
    IF t.threw THEN Caught(s, "create", t.err, Null)
    ELSE Settled([s EXCEPT !.allItems = Arr(Append(@.v, t.data))], t.data)

createSettle(s, r) ==
    LET t == createTry(r) IN
    IF t.threw THEN Caught(s, "create", t.err, Null)
    ELSE Settled(s, t.data)

\* ---- edit (update) -----------------------------------------------------
editStart(s, payload, caller) ==
    Issue([s EXCEPT !.loading = TRUE, !.error = Null, !.currentItem = Null],
          Call(s, "edit", payload, caller,
               Request("PUT", <<ent, "edit">>, JSONStringify(payload))))

\* faulty variant: 201 counts as success too
editTryCreated(r) ==
    IF r.kind = "reject" THEN Threw(TypeError)
    ELSE IF r.status # 200 /\ r.status # 201
         THEN Threw(Error(StatusMessage("Failed to update the " \o Noun(ent),
                                        r.status)))
    ELSE IF ~r.readable THEN Threw(SyntaxError)
    ELSE Got(r.body)

editTry(r) ==
    IF r.kind = "reject" THEN Threw(TypeError)
    ELSE IF r.status # 200
         THEN Threw(Error(StatusMessage("Failed to update the " \o Noun(ent),
                                        r.status)))
    ELSE IF ~r.readable THEN Threw(SyntaxError)
    ELSE Got(r.body)

editSettle(s, r) ==
    LET t == editTry(r) IN
    IF t.threw THEN Caught(s, "edit", t.err, Null)
    ELSE Settled(s, t.data)

\* ---- delete (remove) ---------------------------------------------------
\* faulty variant: the current item is kept while the request is pending
deleteStartKeeping(s, id, caller) ==
    Issue([s EXCEPT !.loading = TRUE, !.error = Null],
          Call(s, "delete", id, caller,
               Request("DELETE", <<ent, "delete", id>>, Undefined)))

deleteStart(s, id, caller) ==
    Issue([s EXCEPT !.loading = TRUE, !.error = Null, !.currentItem = Null],
          Call(s, "delete", id, caller,
               Request("DELETE", <<ent, "delete", id>>, Undefined)))

deleteTry(r) ==
    IF r.kind = "reject" THEN Threw(TypeError)
    ELSE IF r.status # 204 /\ r.status # 200
         THEN Threw(Error(StatusMessage("Failed to delete the " \o Noun(ent),
                                        r.status)))
    ELSE Got(Undefined)

\* faulty variant: a failure returns false
deleteSettleFalse(s, r) ==
    LET t == deleteTry(r) IN
    IF t.threw THEN Caught(s, "delete", t.err, Bool(FALSE))
    ELSE Settled(s, Bool(TRUE))

deleteSettle(s, r) ==
    LET t == deleteTry(r) IN
    IF t.threw THEN Caught(s, "delete", t.err, Null)
    ELSE Settled(s, Bool(TRUE))

\* faulty variant: a call that failed sends its request again
SettleRetrying(s, c, r) ==
    LET out == CASE c.op = "fetchAll"  -> fetchAllSettle(s, r)
                 [] c.op = "fetchById" -> fetchByIdSettle(s, r)
                 [] c.op = "create"    -> createSettle(s, r)
                 [] c.op = "edit"      -> editSettle(s, r)
                 [] c.op = "delete"    -> deleteSettle(s, r)
    IN  IF Truthy(out.state.error)
        THEN [out EXCEPT !.state = Issue([@ EXCEPT !.loading = TRUE], c)]
        ELSE out

\* the part of call c that runs once its response r is there
Settle(s, c, r) ==
    CASE c.op = "fetchAll"  -> fetchAllSettle(s, r)
      [] c.op = "fetchById" -> fetchByIdSettle(s, r)
      [] c.op = "create"    -> createSettle(s, r)
      [] c.op = "edit"      -> editSettle(s, r)
      [] c.op = "delete"    -> deleteSettle(s, r)

(***************************************************************************)
(* Router: the routes of the entity's area, and "home" for every route     *)
(* outside it                                                              *)
(***************************************************************************)
RouteName(e, view) ==
    CASE view = "all"    -> "all-" \o e
      [] view = "add"    -> Noun(e) \o "-add"
      [] view = "info"   -> Noun(e) \o "-info"
      [] view = "edit"   -> Noun(e) \o "-edit"
      [] view = "delete" -> Noun(e) \o "-delete"
      [] OTHER           -> "home"

Route(view, id) == [name |-> RouteName(ent, view), id |-> id]

Routes ==
    {Route("home", ""), Route("all", ""), Route("add", "")}
    \cup {Route(v, ToString(i)) : v \in {"info", "edit", "delete"}, i \in Ids}

IsView(r, view) == r.name = RouteName(ent, view)

\* reading a property that an object may not have
Prop(obj, f) == IF f \in DOMAIN obj THEN obj[f] ELSE Undefined

(***************************************************************************)
(* Forms: the parent's initialFormState, the fields an operator can type,  *)
(* and the payload the form component emits on submit.  Fields that no     *)
(* code inspects (lastName, deliveryAddress, productType, productPrice,    *)
(* productQnt) are left out.                                               *)
(***************************************************************************)
NoForm == [none |-> Undefined]

\* const initialFormState = ref({...}) of the add and edit views
BlankForm(view) ==
    CASE view = "add" /\ ent = "users" ->
            [firstName |-> Str(""), email |-> Str(""), rawPassword |-> Str("")]
      [] view = "add" /\ ent = "products" -> [productName |-> Str("")]
      [] view = "add" /\ ent = "orders" ->
            [orderOwner |-> Num(0), orderProducts |-> Arr(<<>>)]
      [] view = "edit" /\ ent = "users" ->
            [id |-> Undefined, firstName |-> Str(""), email |-> Str(""),
             rawPassword |-> Undefined]
      [] view = "edit" /\ ent = "products" ->
            [id |-> Undefined, productName |-> Str("")]
      [] view = "edit" /\ ent = "orders" ->
            [orderOwner |-> Null, orderProducts |-> Arr(<<>>)]
      [] OTHER -> NoForm

\* faulty variant: the product ids of an order come out in reverse order
MapToFormReversed(item) ==
    CASE ent = "users" ->
            [id |-> item.id, firstName |-> item.firstName, email |-> item.email,
             rawPassword |-> Str("")]
      [] ent = "products" -> [id |-> item.id, productName |-> item.productName]
      [] ent = "orders" ->
            [id |-> item.id,
             orderOwner |-> IF Truthy(item.orderOwner) THEN item.orderOwner.id
                            ELSE Null,
             orderProducts |-> Arr([k \in 1..Len(item.orderProducts.v) |->
                 item.orderProducts.v[Len(item.orderProducts.v) + 1 - k].id])]

\* watch(currentX, (x) => { if (x) initialFormState.value = {...} }) of the edit views
MapToForm(item) ==
    CASE ent = "users" ->
            [id |-> item.id, firstName |-> item.firstName, email |-> item.email,
             rawPassword |-> Str("")]
      [] ent = "products" -> [id |-> item.id, productName |-> item.productName]
      [] ent = "orders" ->
            [id |-> item.id,
             orderOwner |-> IF Truthy(item.orderOwner) THEN item.orderOwner.id
                            ELSE Null,
             orderProducts |-> Arr([k \in 1..Len(item.orderProducts.v) |->
                                       item.orderProducts.v[k].id])]

\* what an operator can enter into the form's inputs
Inputs ==
    CASE ent = "users" ->
            [firstName : {Str(""), Str("Ann")}, email : {Str(""), Str("ann@x")}]
      [] ent = "products" -> [productName : {Str(""), Str("Laptop")}]
      [] ent = "orders" -> [orderOwner : {Null, Num(0), Num(1)}]

\* the form's formState: a copy of initialData with the typed fields written over it
FormState(initialData, typed) ==
    [f \in DOMAIN initialData \cup DOMAIN typed |->
        IF f \in DOMAIN typed THEN typed[f] ELSE initialData[f]]

\* faulty variant: the payload is the copy as it is
FormSubmitKeeping(m, state) == state

\* handleSubmit of UserForm / ProductForm / OrderForm: the payload that is emitted
FormSubmit(m, state) ==
    IF ent = "users" /\ m = "edit" /\ ~Truthy(Prop(state, "rawPassword"))
    THEN [f \in DOMAIN state \ {"rawPassword"} |-> state[f]]
    ELSE state

(***************************************************************************)
(* Views                                                                   *)
(***************************************************************************)
Alert(msg) == [do |-> "alert", msg |-> msg, arg |-> Undefined]
AlertWith(msg, arg) == [do |-> "alert", msg |-> msg, arg |-> arg]
Confirm(answer) == [do |-> "confirm", msg |-> "delete permanently?", arg |-> Bool(answer)]
Pushed(to) == [do |-> "push", msg |-> to.name, arg |-> Str(to.id)]

Done(s, effects) == [state |-> s, effects |-> effects]

\* faulty variant: the views have no route watcher, only onMounted
GotoMountOnly(s, to) ==
    IF to = s.route THEN s
    ELSE IF to.name = s.route.name THEN [s EXCEPT !.route = to]
    ELSE LET s0 == [s EXCEPT !.route = to,
                      !.initialFormState =
                          IF IsView(to, "add") THEN BlankForm("add")
                          ELSE IF IsView(to, "edit")
                               THEN IF Truthy(s.currentItem)
                                    THEN MapToForm(s.currentItem)
                                    ELSE BlankForm("edit")
                          ELSE NoForm]
         IN  IF IsView(to, "all") THEN fetchAllStart(s0, "list")
             ELSE IF IsView(to, "info") \/ IsView(to, "delete") \/ IsView(to, "edit")
                  THEN fetchByIdStart(s0, ParseInt(to.id), "load")
             ELSE s0

\* parseInt(id) of a route parameter that is a string, an array of strings or
\* absent: the argument is converted to a string first, an array joins its
\* elements with "," and parsing stops there, "undefined" is not a number
ParseIntOf(id) ==
    CASE id.t = "string" -> ParseInt(id.v)
      [] id.t = "array"  -> IF id.v = <<>> THEN NaN ELSE ParseInt(id.v[1].v)
      [] OTHER           -> NaN

\* loadX of the edit views
loadEdit(s, id) ==
    IF ~Truthy(id) THEN s
    ELSE LET idString == IF id.t = "array"
                         THEN IF id.v = <<>> THEN Undefined ELSE id.v[1]
                         ELSE id
             n == ParseIntOf(idString)
         IN  IF n # NaN THEN fetchByIdStart(s, n, "load") ELSE s

\* faulty variant: the detail and delete views check the id as the edit views do
loadItemChecked(s, id) == loadEdit(s, id)

\* loadX of the detail and delete views
loadItem(s, id) == fetchByIdStart(s, ParseIntOf(id), "load")

\* onMounted(() => loadX(route.params.id))
Load(s, view, id) == IF view = "edit" THEN loadEdit(s, id) ELSE loadItem(s, id)

\* watch(() => route.params.id, (newId) => { if (newId) loadX(newId) })
WatchParam(s, view, newId) == IF Truthy(newId) THEN Load(s, view, newId) ELSE s

\* the view of route `to` is set up: its initialFormState is created, and the
\* immediate watcher of an edit view maps the current item if there is one
Arrive(s, to) ==
    [s EXCEPT !.route = to,
              !.initialFormState =
                  IF IsView(to, "add") THEN BlankForm("add")
                  ELSE IF IsView(to, "edit")
                       THEN IF Truthy(s.currentItem)
                            THEN MapToForm(s.currentItem)
                            ELSE BlankForm("edit")
                  ELSE NoForm]

\* the route changes to `to`: the view of the new route is mounted (onMounted),
\* or, when only the id changed, the mounted view's route watcher runs
Goto(s, to) ==
    IF to = s.route THEN s
    ELSE LET reused == to.name = s.route.name
             s0 == IF reused THEN [s EXCEPT !.route = to] ELSE Arrive(s, to)
             view == IF IsView(to, "edit") THEN "edit" ELSE "info"
         IN  IF IsView(to, "all") THEN fetchAllStart(s0, "list")
             ELSE IF IsView(to, "info") \/ IsView(to, "delete") \/ IsView(to, "edit")
                  THEN IF reused THEN WatchParam(s0, view, Str(to.id))
                       ELSE Load(s0, view, Str(to.id))
             ELSE s0

\* router.push({ name, params: { id } }): a missing id parameter makes it throw
RouterPush(s, effects, view, id) ==
    IF view # "all" /\ id.t # "number"
    THEN Done(s, Append(effects, [do |-> "push-error", msg |-> RouteName(ent, view),
                                  arg |-> id]))
    ELSE LET to == Route(view, IF view = "all" THEN "" ELSE ToParam(id))
         IN  Done(Goto(s, to), Append(effects, Pushed(to)))

\* ---- add views: handleSubmit ---------------------------------------------
AddValid(formData) ==
    CASE ent = "users" -> Truthy(formData.firstName) /\ Truthy(formData.email)
      [] ent = "products" -> Truthy(formData.productName)
      [] ent = "orders" -> Truthy(formData.orderOwner)

addHandleSubmit(s, formData) ==
    IF ~AddValid(formData) THEN Done(s, <<Alert("required field missing")>>)
    ELSE Done(createStart(s, formData, "AddView"), <<>>)

\* faulty variant: the detail route is built from the id of the submitted payload
addAfterCreateClientId(s, c, created) ==
    IF Truthy(created)
    THEN RouterPush(s, <<Alert("added successfully")>>, "info", Prop(c.arg, "id"))
    ELSE Done(s, <<>>)

\* ... the part after `await createX(formData)`
addAfterCreate(s, c, created) ==
    IF Truthy(created)
    THEN RouterPush(s, <<Alert("added successfully")>>, "info", Prop(created, "id"))
    ELSE Done(s, <<>>)

\* ---- edit views: handleUpdate --------------------------------------------
\* faulty variant: the user's id is not checked
EditValidNoId(formData) ==
    CASE ent = "users" -> Truthy(formData.firstName) /\ Truthy(formData.email)
      [] ent = "products" -> Truthy(formData.productName)
      [] ent = "orders" -> Truthy(formData.orderOwner)

EditValid(formData) ==
    CASE ent = "users" -> Truthy(formData.firstName) /\ Truthy(formData.email)
                          /\ Truthy(Prop(formData, "id"))
      [] ent = "products" -> Truthy(formData.productName)
      [] ent = "orders" -> Truthy(formData.orderOwner)

editHandleUpdate(s, formData) ==
    IF ~EditValid(formData) THEN Done(s, <<Alert("required field missing")>>)
    ELSE Done(editStart(s, formData, "EditView"), <<>>)

\* faulty variant: the detail route is pushed whatever update returned
editAfterUpdateAlways(s, c, success) ==
    RouterPush(s, <<Alert("updated successfully")>>, "info", Prop(c.arg, "id"))

\* ... the part after `await editX(formData)`
editAfterUpdate(s, c, success) ==
    IF Truthy(success)
    THEN RouterPush(s, <<Alert("updated successfully")>>, "info", Prop(c.arg, "id"))
    ELSE Done(s, <<>>)

\* ---- delete views: handleDelete ------------------------------------------
\* faulty variant: the answer to the prompt is not looked at
deleteHandleDeleteUnasked(s, answer) ==
    IF ~Truthy(s.currentItem) \/ ~Truthy(Prop(s.currentItem, "id"))
    THEN Done(s, <<Alert("no data available for deletion")>>)
    ELSE Done(deleteStart(s, s.currentItem.id, "DeleteView"), <<Confirm(answer)>>)

deleteHandleDelete(s, answer) ==
    IF ~Truthy(s.currentItem) \/ ~Truthy(Prop(s.currentItem, "id"))
    THEN Done(s, <<Alert("no data available for deletion")>>)
    ELSE IF answer
         THEN Done(deleteStart(s, s.currentItem.id, "DeleteView"), <<Confirm(TRUE)>>)
         ELSE Done(s, <<Confirm(FALSE)>>)

\* faulty variant: after a successful delete the view alerts and stays
deleteAfterDeleteStaying(s, c, success) ==
    IF Truthy(success)
    THEN Done(s, <<Alert("successfully deleted")>>)
    ELSE Done(s, <<AlertWith("Deletion: failed", s.error)>>)

\* ... the part after `await deleteX(id)`
deleteAfterDelete(s, c, success) ==
    IF Truthy(success)
    THEN RouterPush(s, <<Alert("successfully deleted")>>, "all", Undefined)
    ELSE Done(s, <<AlertWith("Deletion: failed", s.error)>>)

\* the state chain of the detail and delete templates: v-if="loading",
\* v-else-if="error", v-else-if="currentX", v-else
Rendered(s) ==
    IF s.loading THEN "loading"
    ELSE IF Truthy(s.error) THEN "error"
    ELSE IF Truthy(s.currentItem) THEN "data"
    ELSE "empty"

\* the delete button is rendered in the v-else-if="currentX" branch of the template
DeleteButtonShown(s) == ~s.loading /\ ~Truthy(s.error) /\ Truthy(s.currentItem)

\* the handlers that await a call and go on after it
Handlers == {"AddView", "EditView", "DeleteView"}

\* the handler that awaited call c resumes with what the call returned
Resume(s, c, ret) ==
    CASE c.caller = "AddView"    -> addAfterCreate(s, c, ret)
      [] c.caller = "EditView"   -> editAfterUpdate(s, c, ret)
      [] c.caller = "DeleteView" -> deleteAfterDelete(s, c, ret)
      [] OTHER                   -> Done(s, <<>>)

\* faulty variant: the form goes back to the blank state when the item is cleared
EditWatchResetting(before, s) ==
    IF IsView(s.route, "edit") /\ s.currentItem # before.currentItem
    THEN [s EXCEPT !.initialFormState = IF Truthy(s.currentItem)
                                        THEN MapToForm(s.currentItem)
                                        ELSE BlankForm("edit")]
    ELSE s

\* watch(currentX, (x) => { if (x) initialFormState.value = {...} }) of a mounted
\* edit view, run when the current item has changed
EditWatch(before, s) ==
    IF IsView(s.route, "edit") /\ s.currentItem # before.currentItem
       /\ Truthy(s.currentItem)
    THEN [s EXCEPT !.initialFormState = MapToForm(s.currentItem)]
    ELSE s

(***************************************************************************)
(* The state machine                                                       *)
(***************************************************************************)
NoCall == [op |-> "none", arg |-> Undefined, caller |-> "none", solo |-> TRUE,
           held |-> Undefined]
\* Spec and FormSpec follow the client through the variables of one store
NoStores == <<>>
\* ... and have no order search view
NoSearch == [none |-> Undefined]
NoResponse == [kind |-> "none", status |-> 0, readable |-> FALSE, body |-> NoBody]

\* cont: the handler that resumes next, when a call that a handler awaits has
\* settled -- the call and what it returned
Idle == [op |-> "none", arg |-> Undefined, caller |-> "none", ret |-> Undefined]
Awaited(c, ret) == [op |-> c.op, arg |-> c.arg, caller |-> c.caller, ret |-> ret]

\* last: the step just taken -- the handler that ran, the call it settled or
\* resumed from (op, argument, caller, history), the response, what the call
\* returned to its caller or whether it raised, and the alerts, prompts and
\* router pushes of the step
Event(ev, call, response, ret, raised, effects) ==
    [ev |-> ev, op |-> call.op, arg |-> call.arg, caller |-> call.caller,
     solo |-> call.solo, held |-> call.held,
     response |-> response, ret |-> ret, raised |-> raised, effects |-> effects]

Apply(s) ==
    /\ allItems' = s.allItems
    /\ currentItem' = s.currentItem
    /\ loading' = s.loading
    /\ error' = s.error
    /\ inflight' = s.inflight
    /\ route' = s.route
    /\ initialFormState' = s.initialFormState
    /\ UNCHANGED <<ent, mode, formState, refs, stores, search>>

Init ==
    /\ ent \in Entities
    /\ allItems = Arr(<<>>)
    /\ currentItem = Null
    /\ loading = FALSE
    /\ error = Null
    /\ inflight = EmptyBag
    /\ cont = Idle
    /\ route = [name |-> "home", id |-> ""]
    /\ initialFormState = NoForm
    /\ mode = "none"
    /\ formState = NoForm
    /\ refs = "module"
    /\ stores = NoStores
    /\ search = NoSearch
    /\ last = Event("init", NoCall, NoResponse, Undefined, FALSE, <<>>)

\* a new task (user event, response) runs only when no handler is about to resume
Room == cont = Idle /\ BagCardinality(inflight) < MaxInFlight

\* the operator follows a link, uses the menu or types a URL
Navigate(to) ==
    /\ Room
    /\ to # route
    /\ Apply(IF to.name = route.name THEN EditWatch(State, Goto(State, to))
             ELSE Goto(State, to))
    /\ UNCHANGED cont
    /\ last' = Event(IF to.name = route.name THEN "param-change" ELSE "navigate",
                     NoCall, NoResponse, Undefined, FALSE, <<>>)

\* an OrderForm is mounted somewhere else: it lists the users and the products
OrderFormMounted ==
    /\ Room
    /\ ent \in {"users", "products"}
    /\ IsView(route, "home")
    /\ Apply(fetchAllStart(State, "list"))
    /\ UNCHANGED cont
    /\ last' = Event("mount", NoCall, NoResponse, Undefined, FALSE, <<>>)

\* the add view's form is submitted (its button is disabled while loading)
SubmitAdd(typed) ==
    /\ Room
    /\ IsView(route, "add")
    /\ ~loading
    /\ LET formData == FormSubmit("create", FormState(initialFormState, typed))
           h == addHandleSubmit(State, formData)
       IN  /\ Apply(h.state)
           /\ UNCHANGED cont
           /\ last' = Event("submit-add", [NoCall EXCEPT !.arg = formData],
                            NoResponse, Undefined, FALSE, h.effects)

\* the edit view's form is submitted
SubmitEdit(typed) ==
    /\ Room
    /\ IsView(route, "edit")
    /\ ~loading
    /\ LET formData == FormSubmit("edit", FormState(initialFormState, typed))
           h == editHandleUpdate(State, formData)
       IN  /\ Apply(EditWatch(State, h.state))
           /\ UNCHANGED cont
           /\ last' = Event("submit-edit", [NoCall EXCEPT !.arg = formData],
                            NoResponse, Undefined, FALSE, h.effects)

\* the delete button is clicked; answer is what the operator answers to confirm()
ClickDelete(answer) ==
    /\ Room
    /\ IsView(route, "delete")
    /\ DeleteButtonShown(State)
    /\ LET h == deleteHandleDelete(State, answer)
       IN  /\ Apply(h.state)
           /\ UNCHANGED cont
           /\ last' = Event("click-delete", NoCall, NoResponse, Undefined, FALSE,
                            h.effects)

\* the backend answers the pending request of call c (or the transport fails):
\* the call settles and the watchers run; a handler awaiting the call resumes
\* next, unless the call raised
Respond(c, r) ==
    LET s0 == [State EXCEPT !.inflight = @ (-) SetToBag({c})]
        out == Settle(s0, c, r)
        s1 == EditWatch(s0, out.state)
    IN  /\ cont = Idle
        /\ Apply(s1)
        /\ cont' = IF c.caller \in Handlers /\ ~out.raised
                   THEN Awaited(c, out.ret) ELSE Idle
        /\ last' = Event("settle", c, r, out.ret, out.raised, <<>>)

\* the handler that awaited the settled call runs on from its await
Continue ==
    /\ cont # Idle
    /\ LET h == Resume(State, cont, cont.ret)
       IN  /\ Apply(h.state)
           /\ cont' = Idle
           /\ last' = Event("resume", [NoCall EXCEPT !.op = cont.op, !.arg = cont.arg,
                                                     !.caller = cont.caller],
                            NoResponse, cont.ret, FALSE, h.effects)

Next ==
    \/ \E to \in Routes : Navigate(to)
    \/ OrderFormMounted
    \/ \E typed \in Inputs : SubmitAdd(typed)
    \/ \E typed \in Inputs : SubmitEdit(typed)
    \/ \E answer \in BOOLEAN : ClickDelete(answer)
    \/ \E c \in BagToSet(inflight) : \E r \in Responses(ent, c.op) : Respond(c, r)
    \/ Continue

Spec == Init /\ [][Next]_vars

(***************************************************************************)
(* The resource client on its own, called directly (as the unit tests of   *)
(* the composables do), with and without the assumption that every request *)
(* that was issued is answered or fails in the end.  No timeout is set, so *)
(* that rests on the transport.                                            *)
(***************************************************************************)
Operations == {"fetchAll", "fetchById", "create", "edit", "delete"}

\* what a caller may pass to each operation
Arguments(op) ==
    CASE op = "fetchAll" -> {Undefined}
      [] op \in {"fetchById", "delete"} -> {Num(MaxId)}
      [] OTHER -> {Item(ent, MaxId)}

Start(s, op, arg, caller) ==
    CASE op = "fetchAll"  -> fetchAllStart(s, caller)
      [] op = "fetchById" -> fetchByIdStart(s, arg, caller)
      [] op = "create"    -> createStart(s, arg, caller)
      [] op = "edit"      -> editStart(s, arg, caller)
      [] op = "delete"    -> deleteStart(s, arg, caller)

\* an operation of the client is called
Invoke(op, arg) ==
    /\ Room
    /\ Apply(Start(State, op, arg, "direct"))
    /\ UNCHANGED cont
    /\ last' = Event("call", [NoCall EXCEPT !.op = op, !.arg = arg,
                                             !.caller = "direct"],
                     NoResponse, Undefined, FALSE, <<>>)

\* a pending request of operation op is answered or fails
Resolves(op) ==
    \E c \in BagToSet(inflight) :
        c.op = op /\ \E r \in Responses(ent, op) : Respond(c, r)

ClientNext ==
    \/ \E op \in Operations : \E arg \in Arguments(op) : Invoke(op, arg)
    \/ \E op \in Operations : Resolves(op)

ClientSpec == Init /\ [][ClientNext]_vars

LiveSpec == ClientSpec /\ \A op \in Operations : WF_vars(Resolves(op))

(***************************************************************************)
(* The detail, edit and delete views under any value of route.params.id    *)
(* (the router of the application always supplies one string; the unit     *)
(* tests of the views mount them with other values).  Here route.id is the *)
(* parameter written as a string.                                          *)
(***************************************************************************)
\* route.params.id: absent, a string, an array of strings
Params ==
    {Undefined, Str(ToString(MaxId)), Str("abc"),
     Arr(<<Str(ToString(MaxId)), Str("abc")>>),
     Arr(<<Str("abc"), Str(ToString(MaxId))>>)}

RECURSIVE Joined(_)
Joined(q) ==
    IF q = <<>> THEN ""
    ELSE IF Len(q) = 1 THEN q[1].v
    ELSE q[1].v \o "," \o Joined(Tail(q))

ParamString(id) ==
    CASE id.t = "string" -> id.v
      [] id.t = "array"  -> Joined(id.v)
      [] OTHER           -> ""

\* a detail, edit or delete view is mounted under a route with parameter id
Mounts(view, id) ==
    LET to == Route(view, ParamString(id))
    IN  /\ Room
        /\ to.name # route.name
        /\ Apply(Load(Arrive(State, to), view, id))
        /\ UNCHANGED cont
        /\ last' = Event("mount-view", [NoCall EXCEPT !.arg = id], NoResponse,
                         Undefined, FALSE, <<>>)

\* the parameter of the mounted view's route changes
ParamChanges(view, id) ==
    /\ Room
    /\ IsView(route, view)
    /\ ParamString(id) # route.id
    /\ Apply(WatchParam([State EXCEPT !.route.id = ParamString(id)],
                        IF view = "edit" THEN "edit" ELSE "info", id))
    /\ UNCHANGED cont
    /\ last' = Event("param-change", [NoCall EXCEPT !.arg = id], NoResponse,
                     Undefined, FALSE, <<>>)

LoadNext ==
    \/ \E view \in {"info", "edit", "delete"} : \E id \in Params : Mounts(view, id)
    \/ \E view \in {"info", "edit", "delete"} : \E id \in Params :
            ParamChanges(view, id)
    \/ \E c \in BagToSet(inflight) : \E r \in Responses(ent, c.op) : Respond(c, r)

LoadSpec == Init /\ [][LoadNext]_vars

(***************************************************************************)
(* The form components on their own (UserForm, ProductForm, OrderForm,     *)
(* DateForm), under a parent that may pass any initialData.  Here ent      *)
(* names the form ("dates" for DateForm), initialFormState is the parent's *)
(* initialData and formState the form's internal copy; the submitForm      *)
(* events of a step are among its effects.  In Spec the internal copy is   *)
(* not kept: a submit there carries initialFormState overwritten with what *)
(* the operator typed since it was last replaced.                          *)
(***************************************************************************)
Forms == Entities \cup {"dates"}

SeqsUpTo(S, n) == UNION {[1..k -> S] : k \in 0..n}

\* a user as a backend may send it, with the stored password
StoredUser(i) == [id |-> Num(i), firstName |-> Str("Ann"), email |-> Str("ann@x"),
                  password |-> Str("stored")]

\* the orders a backend may send: owner present or absent, any product list
FetchedOrders ==
    {[id |-> Num(i), orderOwner |-> o, orderProducts |-> Arr(q)] :
        i \in Ids, o \in {User(j) : j \in Ids} \cup {Null},
        q \in SeqsUpTo({Product(j) : j \in Ids}, MaxProducts)}

\* the items the watcher of an edit view may be handed
Fetched(e) ==
    CASE e = "users" -> Items(e) \cup {StoredUser(i) : i \in Ids}
      [] e = "products" -> Items(e)
      [] e = "orders" -> FetchedOrders
      [] OTHER -> {}

\* initialFormState of the search views
BlankDates == [startDate |-> Null, endDate |-> Null]

\* the initialData a parent may pass without mapping an item
ParentData(e) ==
    CASE e = "users" ->
            {BlankForm("add"), BlankForm("edit"),
             [id |-> Num(MaxId), firstName |-> Str("Ann"), email |-> Str("ann@x"),
              rawPassword |-> Str("pw")]}
      [] e = "dates" -> {BlankDates, [startDate |-> Str("2024-01-01"), endDate |-> Null]}
      [] OTHER -> {BlankForm("add"), BlankForm("edit")}

\* the inputs the form's template binds with v-model, and what can be entered
EditableFields(e, m) ==
    CASE e = "users" -> {"firstName", "email"}
                        \cup (IF m = "create" THEN {"rawPassword"} ELSE {})
      [] e = "products" -> {"productName"}
      [] e = "orders" -> {"orderOwner", "orderProducts"}
      [] e = "dates" -> {"startDate", "endDate"}

FieldValues(f) ==
    CASE f = "firstName" -> {Str(""), Str("Bob")}
      [] f = "email" -> {Str(""), Str("bob@x")}
      [] f = "rawPassword" -> {Str(""), Str("pw")}
      [] f = "productName" -> {Str(""), Str("Desk")}
      [] f = "orderOwner" -> {Num(i) : i \in Ids}
      [] f = "orderProducts" -> {Arr(q) : q \in SeqsUpTo({Num(i) : i \in Ids}, 1)}
      [] OTHER -> {Str(""), Str("2024-12-31")}

\* const formState = ref({ ...props.initialData }), and the watcher on
\* props.initialData: formState.value = { ...newVal }
\* emit('submitForm', payload)
Emitted(payload) == [do |-> "emit", msg |-> "submitForm", arg |-> payload]

CopyOf(data) == [f \in DOMAIN data |-> data[f]]

FormFrame == UNCHANGED <<ent, allItems, currentItem, loading, error, inflight,
                         cont, route, mode, refs, stores, search>>

FormInit ==
    /\ ent \in Forms
    /\ allItems = Arr(<<>>)
    /\ currentItem = Null
    /\ loading = FALSE
    /\ error = Null
    /\ inflight = EmptyBag
    /\ cont = Idle
    /\ route = [name |-> "home", id |-> ""]
    /\ mode \in {"create", "edit"}
    /\ initialFormState \in ParentData(ent)
    /\ formState = CopyOf(initialFormState)
    /\ refs = "module"
    /\ stores = NoStores
    /\ search = NoSearch
    /\ last = Event("init", NoCall, NoResponse, Undefined, FALSE, <<>>)

\* the parent assigns initialData; the form's watcher replaces the copy
ParentSets(data) ==
    /\ initialFormState' = data
    /\ formState' = CopyOf(data)
    /\ FormFrame
    /\ last' = Event("parent-change", NoCall, NoResponse, Undefined, FALSE, <<>>)

\* the watcher of an edit view maps a fetched item into initialData
ParentMaps(item) ==
    /\ mode = "edit"
    /\ initialFormState' = MapToForm(item)
    /\ formState' = CopyOf(MapToForm(item))
    /\ FormFrame
    /\ last' = Event("map", [NoCall EXCEPT !.arg = item], NoResponse, Undefined,
                     FALSE, <<>>)

\* faulty variant: an input is bound to the parent's object as well
FieldEditTwoWay(f, v) ==
    /\ f \in DOMAIN formState
    /\ formState' = [formState EXCEPT ![f] = v]
    /\ initialFormState' = [initialFormState EXCEPT ![f] = v]
    /\ FormFrame
    /\ last' = Event("field-edit", NoCall, NoResponse, Undefined, FALSE, <<>>)

\* the operator changes one input
FieldEdit(f, v) ==
    /\ f \in DOMAIN formState
    /\ formState' = [formState EXCEPT ![f] = v]
    /\ UNCHANGED initialFormState
    /\ FormFrame
    /\ last' = Event("field-edit", NoCall, NoResponse, Undefined, FALSE, <<>>)

\* the form is submitted: handleSubmit emits submitForm with the payload
FormEmits ==
    /\ UNCHANGED <<initialFormState, formState>>
    /\ FormFrame
    /\ last' = Event("emit", [NoCall EXCEPT !.arg = formState], NoResponse,
                     Undefined, FALSE, <<Emitted(FormSubmit(mode, formState))>>)

FormNext ==
    \/ \E data \in ParentData(ent) : ParentSets(data)
    \/ \E item \in Fetched(ent) : ParentMaps(item)
    \/ \E f \in EditableFields(ent, mode) : \E v \in FieldValues(f) : FieldEdit(f, v)
    \/ FormEmits

FormSpec == FormInit /\ [][FormNext]_vars

(***************************************************************************)
(* The consumers of a resource client.  Every component that calls         *)
(* useUsers(), useProducts() or useOrders() gets the refs the composable   *)
(* returns: the refs declared at module level are the same objects for     *)
(* every caller, the refs declared inside the function are new ones at     *)
(* each call.  The repository holds useOrders in both forms: with          *)
(* module-level refs, and (the version with the search operations) with    *)
(* the refs inside useOrders(); refs says which one a behaviour follows.   *)
(* stores maps each set of refs to its values.                             *)
(***************************************************************************)
\* two components that each call the composable of the entity: a list or
\* search view and a detail view, with the operations each of them calls
Consumers == {"list", "detail"}

Uses(k) == IF k = "list" THEN {"fetchAll", "fetchOrdersByOwner", "fetchOrdersByDate"}
           ELSE {"fetchById"}

Refs(e) == IF e = "orders" THEN {"module", "function"} ELSE {"module"}

\* faulty variant: every composable creates its refs inside the function
StoreOfPerCall(k) == k

\* the set of refs that the useX() call of component k returns
StoreOf(k) == IF refs = "module" THEN "module" ELSE k

StoreIds == {StoreOf(k) : k \in Consumers}

\* the search operations exist in the useOrders with the refs inside the function
HasSearch == ent = "orders" /\ refs = "function"

\* const allOrders = ref([]), ... : the values right after the refs are created
NewStore == [allItems |-> Arr(<<>>), ordersByOwner |-> Arr(<<>>),
             ordersByDate |-> Arr(<<>>), currentItem |-> Null,
             loading |-> FALSE, error |-> Null, inflight |-> EmptyBag]

\* OrderDataByDate, and the owner ids a caller may pass (route parameters)
Dates == {Null, Str("2024-12-31")}
DateRanges == {[startDate |-> a, endDate |-> b] : a \in Dates, b \in Dates}
Owners == {Str(ToString(MaxId)), Str("me")}

\* {}
EmptyObject == [f \in {} |-> Undefined]

\* catch (err) { error.value = err.message || `...` } finally { ... }; return data
SearchCaught(s, err, fallback) ==
    IF Catches(err)
    THEN [state |-> Finally([s EXCEPT !.error = OrElse(err.message, fallback)]),
          ret |-> Null, raised |-> FALSE]
    ELSE [state |-> Finally(s), ret |-> Undefined, raised |-> TRUE]

\* if (response.status !== 201 && response.status !== 200) throw ...;
\* data = await response.json()
SearchTry(r) ==
    IF r.kind = "reject" THEN Threw(TypeError)
    ELSE IF r.status # 201 /\ r.status # 200
         THEN Threw(Error(StatusMessage("HTTP error! Status: ", r.status)))
    ELSE IF ~r.readable THEN Threw(SyntaxError)
    ELSE Got(r.body)

\* ---- fetchOrdersByOwner ------------------------------------------------
\* faulty variant: the optional date range is sent as it was given
fetchOrdersByOwnerStartRaw(s, owner, dateData, caller) ==
    Issue([s EXCEPT !.loading = TRUE, !.error = Null],
          Call(s, "fetchOrdersByOwner", [owner |-> owner, dateData |-> dateData],
               caller,
               Request("POST", <<"orders", "show", "owner", ParseInt(owner.v)>>,
                       dateData)))

fetchOrdersByOwnerStart(s, owner, dateData, caller) ==
    LET ownerNumber == ParseInt(owner.v)
        bodyPayload == IF dateData # Null THEN dateData ELSE EmptyObject
    IN  Issue([s EXCEPT !.loading = TRUE, !.error = Null],
              Call(s, "fetchOrdersByOwner", [owner |-> owner, dateData |-> dateData],
                   caller,
                   Request("POST", <<"orders", "show", "owner", ownerNumber>>,
                           JSONStringify(bodyPayload))))

fetchOrdersByOwnerSettle(s, c, r) ==
    LET t == SearchTry(r)
        ownerNumber == ToParam(ParseInt(c.arg.owner.v))
    IN  IF t.threw
        THEN SearchCaught(s, t.err,
                 Str("Failed to fetch orders from user with ID " \o ownerNumber \o "."))
        ELSE Settled([s EXCEPT !.ordersByOwner = t.data], t.data)

\* ---- fetchOrdersByDate -------------------------------------------------
fetchOrdersByDateStart(s, dateData, caller) ==
    Issue([s EXCEPT !.loading = TRUE, !.error = Null],
          Call(s, "fetchOrdersByDate", dateData, caller,
               Request("POST", <<"orders", "show", "time_range">>,
                       JSONStringify(dateData))))

fetchOrdersByDateSettle(s, c, r) ==
    LET t == SearchTry(r) IN
    IF t.threw
    THEN SearchCaught(s, t.err, Str("Failed to fetch orders for the given dates."))
    ELSE Settled([s EXCEPT !.ordersByDate = t.data], t.data)

SearchOps == {"fetchOrdersByOwner", "fetchOrdersByDate"}

StoreSettle(s, c, r) ==
    CASE c.op = "fetchOrdersByOwner" -> fetchOrdersByOwnerSettle(s, c, r)
      [] c.op = "fetchOrdersByDate"  -> fetchOrdersByDateSettle(s, c, r)
      [] OTHER                       -> Settle(s, c, r)

StoreResponses(op) ==
    Responses(ent, IF op \in SearchOps THEN "fetchAll" ELSE op)

\* requests pending in all the stores of the entity
RECURSIVE PendingIn(_)
PendingIn(S) ==
    IF S = {} THEN 0
    ELSE LET i == CHOOSE x \in S : TRUE
         IN  BagCardinality(stores[i].inflight) + PendingIn(S \ {i})

AllPending == PendingIn(StoreIds)

ConsumerFrame == UNCHANGED <<ent, allItems, currentItem, loading, error, inflight,
                            cont, route, initialFormState, mode, formState, refs,
                            search>>

ConsumerInit ==
    /\ ent \in Entities
    /\ refs \in Refs(ent)
    /\ stores = [i \in StoreIds |-> NewStore]
    /\ search = NoSearch
    /\ allItems = Arr(<<>>)
    /\ currentItem = Null
    /\ loading = FALSE
    /\ error = Null
    /\ inflight = EmptyBag
    /\ cont = Idle
    /\ route = [name |-> "home", id |-> ""]
    /\ initialFormState = NoForm
    /\ mode = "none"
    /\ formState = NoForm
    /\ last = Event("init", NoCall, NoResponse, Undefined, FALSE, <<>>)

\* component k calls an operation through the refs it holds
Calls(k, op, arg, started) ==
    /\ AllPending < MaxPending
    /\ op \in Uses(k)
    /\ stores' = [stores EXCEPT ![StoreOf(k)] = started]
    /\ ConsumerFrame
    /\ last' = Event("call", [NoCall EXCEPT !.op = op, !.arg = arg, !.caller = k],
                     NoResponse, Undefined, FALSE, <<>>)

CallsFetchAll(k) ==
    Calls(k, "fetchAll", Undefined, fetchAllStart(stores[StoreOf(k)], k))

CallsFetchById(k, id) ==
    Calls(k, "fetchById", id, fetchByIdStart(stores[StoreOf(k)], id, k))

CallsFetchOrdersByOwner(k, owner, dateData) ==
    /\ HasSearch
    /\ Calls(k, "fetchOrdersByOwner", [owner |-> owner, dateData |-> dateData],
             fetchOrdersByOwnerStart(stores[StoreOf(k)], owner, dateData, k))

CallsFetchOrdersByDate(k, dateData) ==
    /\ HasSearch
    /\ Calls(k, "fetchOrdersByDate", dateData,
             fetchOrdersByDateStart(stores[StoreOf(k)], dateData, k))

\* the backend answers the pending request of call c of store i
Answers(i, c, r) ==
    LET s0 == [stores[i] EXCEPT !.inflight = @ (-) SetToBag({c})]
        out == StoreSettle(s0, c, r)
    IN  /\ stores' = [stores EXCEPT ![i] = out.state]
        /\ ConsumerFrame
        /\ last' = Event("settle", c, r, out.ret, out.raised, <<>>)

ConsumerNext ==
    \/ \E k \in Consumers : CallsFetchAll(k)
    \/ \E k \in Consumers : \E id \in Ids : CallsFetchById(k, Num(id))
    \/ \E k \in Consumers : \E owner \in Owners : \E d \in DateRanges \cup {Null} :
            CallsFetchOrdersByOwner(k, owner, d)
    \/ \E k \in Consumers : \E d \in DateRanges : CallsFetchOrdersByDate(k, d)
    \/ \E i \in StoreIds : \E c \in BagToSet(stores[i].inflight) :
            \E r \in StoreResponses(c.op) : Answers(i, c, r)

ConsumerSpec == ConsumerInit /\ [][ConsumerNext]_vars

(***************************************************************************)
(* The order search view.  The parent (SearchOrder) renders a DateForm and *)
(* under it the child of the route: SearchOwnerOrderView for               *)
(* search/owner/:ownerId, SearchDateOrderView for search/date, none for    *)
(* search.  The parent and the by-owner child each call useOrders() (refs  *)
(* inside the function: one store each); the by-owner child also calls     *)
(* useUsers(), whose refs are at module level.  search holds the refs that *)
(* the parent creates and provides to its children.                        *)
(***************************************************************************)
MaxSearches == 2

\* requests of the search view (parent and child) that are pending
SearchPending ==
    BagCardinality(stores["parent"].inflight) + BagCardinality(stores["child"].inflight)
    + BagCardinality(stores["users"].inflight)

specificSearchName == "order-search-owner"
dateSearchName == "order-serch-date"

SearchRoutes ==
    {[name |-> "order-search", id |-> ""], [name |-> dateSearchName, id |-> ""]}
    \cup {[name |-> specificSearchName, id |-> ToString(i)] : i \in 1..MaxId}

\* route.params.ownerId
OwnerParam(r) == IF r.name = specificSearchName THEN Str(r.id) ELSE Undefined

\* what a date input holds: null until it is touched, '' when it is cleared
\* the ranges followed here: a start date alone, and an end date with the
\* start date cleared
SearchInputs ==
    {[startDate |-> Str("2024-12-31"), endDate |-> Null],
     [startDate |-> Str(""), endDate |-> Str("2024-12-31")]}

SearchStores == {"parent", "child", "users"}

\* the refs of the parent right after setup at route r
NewSearch(r) ==
    [searchType |-> IF r.name = specificSearchName THEN "specific" ELSE "general",
     currentOwnerId |-> OwnerParam(r),
     externalOrders |-> Null, searchAttempted |-> FALSE,
     currentStartDate |-> Null, currentEndDate |-> Null]

\* ---- fetchUserById of useUsers -----------------------------------------
fetchUserByIdStart(s, id, caller) ==
    Issue([s EXCEPT !.loading = TRUE, !.error = Null, !.currentItem = Null],
          Call(s, "fetchUserById", id, caller,
               Request("GET", <<"users", "show", id>>, Undefined)))

fetchUserByIdSettle(s, r) ==
    LET t == IF r.kind = "reject" THEN Threw(TypeError)
             ELSE IF ~ResponseOk(r)
                  THEN Threw(Error(StatusMessage("User not found or API error",
                                                 r.status)))
             ELSE IF ~r.readable THEN Threw(SyntaxError)
             ELSE Got(r.body)
    IN  IF t.threw
        THEN IF Catches(t.err)
             THEN [state |-> Finally([s EXCEPT !.error = t.err.message]),
                   ret |-> Undefined, raised |-> FALSE]
             ELSE [state |-> Finally(s), ret |-> Undefined, raised |-> TRUE]
        ELSE Settled([s EXCEPT !.currentItem = t.data], Undefined)

SearchSettle(s, c, r) ==
    IF c.op = "fetchUserById" THEN fetchUserByIdSettle(s, r) ELSE StoreSettle(s, c, r)

\* the answers followed here: 404, and 200 with a body that is JSON (about
\* the entity with the largest id) or not
SearchStatuses == {200, 404}

SearchResponses(op) ==
    {r \in IF op = "fetchUserById" THEN Responses("users", "fetchById")
           ELSE Responses("orders", "fetchAll") :
        /\ r.kind = "http"
        /\ r.status \in SearchStatuses
        /\ r.readable => r.body \in {Arr(<<>>), Arr(<<Order(MaxId)>>), User(MaxId)}}

\* ---- SearchOwnerOrderView ------------------------------------------------
\* onMounted(() => { loadUser(route.params.ownerId); loadOrders(route.params.ownerId) })
\* in a component whose useOrders() call has just created its refs
childOnMounted(st, ownerId) ==
    [st EXCEPT !["users"] = fetchUserByIdStart(@, ParseIntOf(ownerId),
                                               "SearchOwnerOrderView"),
               !["child"] = fetchOrdersByOwnerStart(NewStore, ownerId, Null,
                                                    "SearchOwnerOrderView")]

\* ---- SearchOrder ---------------------------------------------------------
\* the watchers of route.name and route.params.ownerId
searchWatchRoute(sr, to) ==
    [sr EXCEPT !.searchType = IF to.name = specificSearchName THEN "specific"
                              ELSE "general",
               !.currentOwnerId = OwnerParam(to)]

\* faulty variant: the form is disabled while the parent's client is loading
SearchFormDisabledWhileLoading(st) == st["parent"].loading

\* let loading = false, passed to the DateForm as :loading and never assigned
\* again; the submit button of the form has :disabled="props.loading"
SearchFormDisabled(st) == FALSE

\* faulty variant: every search is a search by date
searchHandleSubmitByDate(sr, s, formData) ==
    [search |-> [sr EXCEPT !.searchAttempted = TRUE,
                           !.currentStartDate = OrElse(formData.startDate, Null),
                           !.currentEndDate = OrElse(formData.endDate, Null)],
     store |-> fetchOrdersByDateStart(s, formData, "SearchOrder")]

\* handleSubmit up to its await
searchHandleSubmit(sr, s, formData) ==
    [search |-> [sr EXCEPT !.searchAttempted = TRUE,
                           !.currentStartDate = OrElse(formData.startDate, Null),
                           !.currentEndDate = OrElse(formData.endDate, Null)],
     store |-> IF sr.searchType = "general"
               THEN fetchOrdersByDateStart(s, formData, "SearchOrder")
               ELSE fetchOrdersByOwnerStart(s, sr.currentOwnerId, formData,
                                            "SearchOrder")]

\* ... and after it: externalOrders.value = fetchedData; if (!fetchedData) alert(...)
searchAfterFetch(sr, fetchedData) ==
    [search |-> [sr EXCEPT !.externalOrders = fetchedData],
     effects |-> IF ~Truthy(fetchedData) THEN <<Alert("The request failed.")>>
                 ELSE <<>>]

\* ---- what the children render -------------------------------------------
NothingShown == [t |-> "nothing"]

\* ordersToDisplay of the child of the route
OrdersToDisplay ==
    IF route.name = specificSearchName
    THEN IF Truthy(search.externalOrders) THEN search.externalOrders
         ELSE stores["child"].ordersByOwner
    ELSE IF route.name = dateSearchName
         THEN OrElse(search.externalOrders, Arr(<<>>))
    ELSE NothingShown

\* dateRangeDisplay of SearchDateOrderView
DateRangeDisplay ==
    LET start == search.currentStartDate
        end == search.currentEndDate
    IN  IF Truthy(start) /\ Truthy(end)
        THEN [text |-> "between", start |-> start, end |-> end]
        ELSE IF Truthy(start) THEN [text |-> "from", start |-> start, end |-> Null]
        ELSE IF Truthy(end) THEN [text |-> "up to", start |-> Null, end |-> end]
        ELSE [text |-> "", start |-> Null, end |-> Null]

\* ---- the state machine ---------------------------------------------------
SearchFrame == UNCHANGED <<ent, allItems, currentItem, loading, error, inflight,
                           initialFormState, mode, formState, refs>>

SearchInit ==
    /\ ent = "orders"
    /\ refs = "function"
    /\ route = [name |-> "order-search", id |-> ""]
    /\ stores = [i \in SearchStores |-> NewStore]
    /\ search = NewSearch(route)
    /\ allItems = Arr(<<>>)
    /\ currentItem = Null
    /\ loading = FALSE
    /\ error = Null
    /\ inflight = EmptyBag
    /\ cont = Idle
    /\ initialFormState = BlankDates
    /\ mode = "none"
    /\ formState = NoForm
    /\ last = Event("init", NoCall, NoResponse, Undefined, FALSE, <<>>)

\* the operator follows a link to another route under orders/search: the
\* parent stays, its watchers run, and a child that was not rendered before
\* is mounted (a by-owner child whose owner id changes is kept as it is)
SearchNavigate(to) ==
    /\ cont = Idle
    /\ to # route
    /\ to.name = specificSearchName /\ route.name # specificSearchName
          => SearchPending = 0
    /\ route' = to
    /\ search' = searchWatchRoute(search, to)
    /\ stores' = IF to.name = specificSearchName /\ route.name # specificSearchName
                 THEN childOnMounted(stores, OwnerParam(to))
                 ELSE stores
    /\ UNCHANGED cont
    /\ SearchFrame
    /\ last' = Event("search-navigate", NoCall, NoResponse, Undefined, FALSE, <<>>)

\* the DateForm is submitted with the dates the operator entered
SearchSubmit(typed) ==
    /\ cont = Idle
    /\ SearchPending < MaxSearches
    /\ ~SearchFormDisabled(stores)
    /\ LET formData == CopyOf(FormState(initialFormState, typed))
           h == searchHandleSubmit(search, stores["parent"], formData)
       IN  /\ search' = h.search
           /\ stores' = [stores EXCEPT !["parent"] = h.store]
           /\ last' = Event("search-submit", [NoCall EXCEPT !.arg = formData],
                            NoResponse, Undefined, FALSE, <<>>)
    /\ UNCHANGED <<cont, route>>
    /\ SearchFrame

\* the backend answers the pending request of call c of store i
SearchAnswers(i, c, r) ==
    LET s0 == [stores[i] EXCEPT !.inflight = @ (-) SetToBag({c})]
        out == SearchSettle(s0, c, r)
    IN  /\ cont = Idle
        /\ stores' = [stores EXCEPT ![i] = out.state]
        /\ cont' = IF c.caller = "SearchOrder" /\ ~out.raised
                   THEN Awaited(c, out.ret) ELSE Idle
        /\ UNCHANGED <<route, search>>
        /\ SearchFrame
        /\ last' = Event("settle", c, r, out.ret, out.raised, <<>>)

\* handleSubmit of the parent runs on from its await
SearchContinue ==
    /\ cont # Idle
    /\ LET h == searchAfterFetch(search, cont.ret)
       IN  /\ search' = h.search
           /\ last' = Event("resume", [NoCall EXCEPT !.op = cont.op, !.arg = cont.arg,
                                                     !.caller = cont.caller],
                            NoResponse, cont.ret, FALSE, h.effects)
    /\ cont' = Idle
    /\ UNCHANGED <<route, stores>>
    /\ SearchFrame

SearchNext ==
    \/ \E to \in SearchRoutes : SearchNavigate(to)
    \/ \E typed \in SearchInputs : SearchSubmit(typed)
    \/ \E i \in SearchStores : \E c \in BagToSet(stores[i].inflight) :
            \E r \in SearchResponses(c.op) : SearchAnswers(i, c, r)
    \/ SearchContinue

SearchSpec == SearchInit /\ [][SearchNext]_vars

(***************************************************************************)
(* Vocabulary of the properties                                            *)
(***************************************************************************)
Client == <<allItems, currentItem, loading, error, inflight>>

\* the step l settled a call of operation op
IsSettle(l, op) == l.ev = "settle" /\ l.op = op

\* the answer was an HTTP response with one of the given status codes
HasStatus(r, codes) == r.kind = "http" /\ r.status \in codes

\* the answer was an HTTP response with a status outside the given codes
HasOtherStatus(r, codes) == r.kind = "http" /\ r.status \notin codes

\* e is a message string
IsMessage(e) == ~IsObject(e) /\ e.t = "string"

\* e is a message string that contains the status code st
ContainsStatus(e, st) == IsMessage(e) /\ "status" \in DOMAIN e /\ e.status = st

\* how many calls of operation op are pending in the bag b
Pending(b, op) ==
    BagCardinality([c \in {d \in BagToSet(b) : d.op = op} |-> b[c]])

\* two objects with the same defined properties
SameDefined(a, b) ==
    \A f \in DOMAIN a \cup DOMAIN b : Prop(a, f) = Prop(b, f)

\* a failure of a call of op: transport error, non-success status, or a body
\* that the operation reads and cannot read
Failure(op, r) ==
    \/ r.kind = "reject"
    \/ ~ResponseOk(r)
    \/ op # "delete" /\ ~r.readable

(***************************************************************************)
(* C1 -- fetchAll, successful response                                     *)
(***************************************************************************)
FetchAllSucceeded ==
    /\ IsSettle(last, "fetchAll")
    /\ last.response.kind = "http" /\ ResponseOk(last.response)
    /\ last.response.readable

\* C1 as stated: once a fetchAll whose request resolved with a successful
\* response has settled, loading is false, error is null, and the collection is
\* exactly the response body.
C1_AsStated ==
    FetchAllSucceeded =>
        /\ loading = FALSE
        /\ error = Null
        /\ allItems = last.response.body

\* C1, amended: once a fetchAll whose request resolved with a successful
\* response has settled, loading is false and the collection is exactly the
\* response body (whatever it held before); error is null when no other call
\* of the entity was pending while the fetchAll was.
C1_FetchAllSuccess ==
    FetchAllSucceeded =>
        /\ loading = FALSE
        /\ allItems = last.response.body
        /\ last.solo => error = Null

C1_Witness ==
    /\ FetchAllSucceeded
    /\ last.solo
    /\ Len(last.response.body.v) = MaxLen
    /\ allItems = last.response.body
    /\ error = Null

NoItemWhileFetching ==
    \A c \in BagToSet(inflight) :
        c.op = "fetchById" /\ c.solo => currentItem = Null

\* C3: the step that starts a fetchById sets the current item to null; while
\* the call is pending and no other call overlaps it, no item is held; a failure
\* response leaves the current item as it is (null, when nothing overlapped) and
\* sets error to a message containing the status code; a success makes the
\* current item the returned item.
C3_FetchById ==
    [][/\ Pending(inflight', "fetchById") > Pending(inflight, "fetchById")
            => currentItem' = Null
       /\ NoItemWhileFetching'
       /\ (IsSettle(last', "fetchById") /\ last'.response.kind = "http"
           /\ ~ResponseOk(last'.response))
            => /\ currentItem' = currentItem
               /\ last'.solo => currentItem' = Null
               /\ ContainsStatus(error', last'.response.status)
       /\ (IsSettle(last', "fetchById") /\ last'.response.kind = "http"
           /\ ResponseOk(last'.response) /\ last'.response.readable)
            => currentItem' = last'.response.body]_vars

C3_Witness ==
    /\ IsSettle(last, "fetchById")
    /\ last.solo
    /\ HasStatus(last.response, {404})
    /\ Truthy(last.held)
    /\ currentItem = Null
    /\ ContainsStatus(error, 404)

(***************************************************************************)
(* C4 -- create                                                            *)
(***************************************************************************)
\* the step that starts an operation op clears the current item
ClearsAtStart(op) ==
    Pending(inflight', op) > Pending(inflight, op) => currentItem' = Null

\* C4 as stated: create returns the entity sent back if and only if the status
\* is 200 or 201; every other status and a transport failure return null and
\* set error (with the status code when there is one); the current item is
\* cleared at call start and loading is false after the call settled.
C4_AsStated ==
    [][/\ ClearsAtStart("create")
       /\ IsSettle(last', "create") =>
            /\ (IsObject(last'.ret) /\ last'.ret = last'.response.body)
                   <=> HasStatus(last'.response, {200, 201})
            /\ ~HasStatus(last'.response, {200, 201}) =>
                   /\ last'.ret = Null
                   /\ IsMessage(error')
                   /\ last'.response.kind = "http"
                          => ContainsStatus(error', last'.response.status)
            /\ loading' = FALSE]_vars

\* C4, amended: create returns the entity sent back if and only if the status
\* is 200 or 201 and the body is readable; a 200/201 answer with an unreadable
\* body, every other status and a transport failure return null and set error
\* (with the status code when the status is not 200/201); the current item is
\* cleared at call start and loading is false after the call settled.
C4_Create ==
    [][/\ ClearsAtStart("create")
       /\ IsSettle(last', "create") =>
            /\ (IsObject(last'.ret) /\ last'.ret = last'.response.body)
                   <=> (HasStatus(last'.response, {200, 201})
                        /\ last'.response.readable)
            /\ ~(HasStatus(last'.response, {200, 201}) /\ last'.response.readable)
                   => last'.ret = Null /\ IsMessage(error')
            /\ HasOtherStatus(last'.response, {200, 201})
                   => ContainsStatus(error', last'.response.status)
            /\ loading' = FALSE]_vars

C4_Witness ==
    /\ IsSettle(last, "create")
    /\ HasStatus(last.response, {201})
    /\ ~last.response.readable
    /\ last.ret = Null
    /\ IsMessage(error)
    /\ ~loading

(***************************************************************************)
(* C5 -- update                                                            *)
(***************************************************************************)
\* the body of every pending update request equals the payload passed in
BodyIsPayload ==
    \A c \in BagToSet(inflight) :
        c.op = "edit" => /\ c.request.method = "PUT"
                         /\ SameDefined(c.request.body, c.arg)

\* C5 as stated: update sends a body equal to its payload, and returns the
\* object of the response if and only if the status is 200; any other status
\* returns null with error containing the status code.
C5_AsStated ==
    /\ BodyIsPayload
    /\ IsSettle(last, "edit") =>
         /\ (IsObject(last.ret) /\ last.ret = last.response.body)
                <=> HasStatus(last.response, {200})
         /\ HasOtherStatus(last.response, {200})
                => last.ret = Null /\ ContainsStatus(error, last.response.status)

\* C5, amended: update sends a body equal to its payload, and returns the
\* object of the response if and only if the status is 200 and the body is
\* readable; any other status returns null with error containing the status
\* code, and a 200 answer with an unreadable body returns null with an error
\* message.
C5_Update ==
    /\ BodyIsPayload
    /\ IsSettle(last, "edit") =>
         /\ (IsObject(last.ret) /\ last.ret = last.response.body)
                <=> (HasStatus(last.response, {200}) /\ last.response.readable)
         /\ HasOtherStatus(last.response, {200})
                => last.ret = Null /\ ContainsStatus(error, last.response.status)
         /\ (HasStatus(last.response, {200}) /\ ~last.response.readable)
                => last.ret = Null /\ IsMessage(error)

C5_Witness ==
    /\ IsSettle(last, "edit")
    /\ HasStatus(last.response, {200})
    /\ ~last.response.readable
    /\ Truthy(Prop(last.arg, "id"))
    /\ last.ret = Null
    /\ IsMessage(error)

(***************************************************************************)
(* C6 -- remove                                                            *)
(***************************************************************************)
\* C6: remove returns true only when the status is 200 or 204; for any other
\* status it returns null, never false, and error contains the status code;
\* loading is false after the call settled.
C6_Remove ==
    IsSettle(last, "delete") =>
        /\ last.ret = Bool(TRUE) <=> HasStatus(last.response, {200, 204})
        /\ HasOtherStatus(last.response, {200, 204})
               => last.ret = Null /\ ContainsStatus(error, last.response.status)
        /\ last.ret # Bool(FALSE)
        /\ loading = FALSE

C6_Witness ==
    /\ IsSettle(last, "delete")
    /\ HasStatus(last.response, {201})
    /\ last.ret = Null
    /\ ContainsStatus(error, 201)
    /\ ~loading

(***************************************************************************)
(* C7 -- nothing is raised                                                 *)
(***************************************************************************)
Mutations == {"create", "edit", "delete"}
Reads == {"fetchAll", "fetchById"}

\* what every settling call does, whatever the failure: it does not raise, a
\* mutation returns null, error is a message string
SettlesNormally(l, e) ==
    /\ ~l.raised
    /\ Failure(l.op, l.response) =>
         /\ l.op \in Mutations => l.ret = Null
         /\ IsMessage(e)

\* C7 as stated: no operation raises; on every failure a mutation returns
\* null, a read leaves the collection and the current item that were held
\* before the call, and error is a message string.
C7_AsStated ==
    [][last'.ev = "settle" =>
         /\ SettlesNormally(last', error')
         /\ (Failure(last'.op, last'.response) /\ last'.op \in Reads) =>
              /\ allItems' = allItems
              /\ last'.solo => currentItem' = last'.held]_vars

\* C7, amended: no operation raises; on every failure a mutation returns null
\* and error is a message string; a failing fetchAll leaves the collection and
\* the current item that were held before the call; a failing fetchById leaves
\* the collection, but the current item it cleared at its start stays null.
C7_NeverRaises ==
    [][last'.ev = "settle" =>
         /\ SettlesNormally(last', error')
         /\ (Failure(last'.op, last'.response) /\ last'.op \in Reads) =>
              /\ allItems' = allItems
              /\ currentItem' = currentItem
              /\ (last'.solo /\ last'.op = "fetchAll") => currentItem' = last'.held
              /\ (last'.solo /\ last'.op = "fetchById") => currentItem' = Null]_vars

C7_Witness ==
    /\ IsSettle(last, "fetchById")
    /\ last.solo
    /\ last.response.kind = "reject"
    /\ ~last.raised
    /\ Truthy(last.held)
    /\ currentItem = Null
    /\ IsMessage(error)

(***************************************************************************)
(* C8 -- delete views                                                      *)
(***************************************************************************)
\* C8: a step starts a remove call only as a handleDelete activation in which
\* confirm returned true and a current item was there, and the call is for that
\* item's id; an activation in which the operator declined, or in which no
\* usable current item was there, starts no call, does not navigate and leaves
\* the shared state as it was.
C8_DeleteAsksFirst ==
    [][/\ Pending(inflight', "delete") > Pending(inflight, "delete") =>
            /\ last'.ev = "click-delete"
            /\ last'.effects = <<Confirm(TRUE)>>
            /\ Truthy(currentItem)
            /\ Pending(inflight', "delete") = Pending(inflight, "delete") + 1
            /\ \E c \in BagToSet(inflight') :
                   /\ c.op = "delete" /\ c.caller = "DeleteView"
                   /\ c.held = currentItem /\ c.arg = currentItem.id
       /\ (last'.ev = "click-delete" /\ last'.effects # <<Confirm(TRUE)>>) =>
            /\ last'.effects \in {<<Confirm(FALSE)>>,
                                  <<Alert("no data available for deletion")>>}
            /\ UNCHANGED <<Client, cont, route, initialFormState>>]_vars

C8_Witness ==
    /\ last.ev = "click-delete"
    /\ last.effects = <<Confirm(FALSE)>>
    /\ Truthy(currentItem)
    /\ Pending(inflight, "delete") = 0
    /\ IsView(route, "delete")

(***************************************************************************)
(* C9 -- validation in the add and edit views                              *)
(***************************************************************************)
\* the payload misses a field that the view requires
RequiredMissing(ev, p) ==
    CASE ent = "products" -> ~Truthy(p.productName)
      [] ent = "users" -> \/ ~Truthy(p.firstName)
                          \/ ~Truthy(p.email)
                          \/ ev = "submit-edit" /\ ~Truthy(Prop(p, "id"))
      [] ent = "orders" -> p.orderOwner \in {Null, Num(0)}

ResumesFromFailure(l) == l.ev = "resume" /\ ~Truthy(l.ret)

IsAlert(x) == x.do = "alert"

\* C11 as stated: whenever a handler resumes from a create, update or delete
\* that reported failure, it shows an alert and the route stays.
C11_AsStated ==
    [][ResumesFromFailure(last') =>
          /\ \E k \in 1..Len(last'.effects) : IsAlert(last'.effects[k])
          /\ route' = route]_vars

\* C11, amended: whenever a handler resumes from a call that reported failure
\* the route stays and no request starts; the delete view shows one alert,
\* which carries the client's error message; the add and edit views show no
\* alert at all (the error message is left in the shared error state, which
\* the form renders).
C11_FailureStays ==
    [][ResumesFromFailure(last') =>
          /\ UNCHANGED <<Client, route, initialFormState>>
          /\ IsMessage(error)
          /\ last'.effects = IF last'.caller = "DeleteView"
                             THEN <<AlertWith("Deletion: failed", error)>>
                             ELSE <<>>]_vars

C11_Witness ==
    /\ ResumesFromFailure(last)
    /\ last.caller = "EditView"
    /\ last.effects = <<>>
    /\ IsView(route, "edit")
    /\ IsMessage(error)

(***************************************************************************)
(* C12 -- delete views: after the confirmation                             *)
(***************************************************************************)
\* C12: a handleDelete activation in which the operator confirmed starts
\* exactly one remove call, for the id of the current item; when the handler
\* resumes from a successful remove it alerts and pushes the list route of the
\* entity, which becomes the route; when it resumes from a failed remove it
\* shows one alert with the client's error message and the route stays.
C12_DeleteFlow ==
    [][/\ (last'.ev = "click-delete" /\ last'.effects = <<Confirm(TRUE)>>) =>
            /\ Pending(inflight', "delete") = Pending(inflight, "delete") + 1
            /\ BagCardinality(inflight') = BagCardinality(inflight) + 1
            /\ \E c \in BagToSet(inflight') :
                   /\ c.op = "delete" /\ c.caller = "DeleteView"
                   /\ c.arg = currentItem.id
                   /\ c.request = Request("DELETE", <<ent, "delete", currentItem.id>>,
                                          Undefined)
       /\ (last'.ev = "resume" /\ last'.caller = "DeleteView") =>
            IF Truthy(last'.ret)
            THEN /\ last'.effects = <<Alert("successfully deleted"),
                                      Pushed(Route("all", ""))>>
                 /\ route' = Route("all", "")
            ELSE /\ last'.effects = <<AlertWith("Deletion: failed", error)>>
                 /\ IsMessage(error)
                 /\ route' = route]_vars

C12_Witness ==
    /\ last.ev = "resume" /\ last.caller = "DeleteView"
    /\ last.ret = Bool(TRUE)
    /\ last.arg = Num(MaxId)
    /\ Len(last.effects) = 2
    /\ route = Route("all", "")

(***************************************************************************)
(* C13 -- one fetchById per mount and per change of the route id           *)
(***************************************************************************)
ItemViews == {"info", "edit", "delete"}

ShowsItem(r) == \E v \in ItemViews : IsView(r, v)

\* the step started exactly one call, a fetchById for the id of the route r
StartsOneFetchFor(r) ==
    \E c \in BagToSet(inflight') :
        /\ c.op = "fetchById" /\ c.caller = "load"
        /\ c.arg = ParseInt(r.id)
        /\ c.request = Request("GET", <<ent, "show", ParseInt(r.id)>>, Undefined)
        /\ inflight' = BagOfAll(Overlapped, inflight) (+) SetToBag({c})

PayloadOf(l) == l.effects[1].arg

\* the form's password value is there and not empty
HasPassword(state) == Truthy(Prop(state, "rawPassword"))

\* C14: whenever the user edit view maps a fetched user into the form's
\* initial state, the password field of the initial state and of the form's
\* copy is the empty string and no field carries the stored password; a
\* payload emitted by the user form in edit mode has a rawPassword field if
\* and only if the form's password value is non-empty, and then it is that
\* value.
C14_Password ==
    /\ (ent = "users" /\ last.ev = "map") =>
         /\ initialFormState.rawPassword = Str("")
         /\ formState.rawPassword = Str("")
         /\ \A f \in DOMAIN initialFormState :
                initialFormState[f] # Prop(last.arg, "password")
    /\ (ent = "users" /\ mode = "edit" /\ last.ev = "emit") =>
         /\ "rawPassword" \in DOMAIN PayloadOf(last) <=> HasPassword(last.arg)
         /\ HasPassword(last.arg)
                => PayloadOf(last).rawPassword = last.arg.rawPassword
         /\ \A f \in DOMAIN last.arg \ {"rawPassword"} :
                f \in DOMAIN PayloadOf(last) /\ PayloadOf(last)[f] = last.arg[f]

C14_Witness ==
    /\ ent = "users" /\ mode = "edit" /\ last.ev = "emit"
    /\ Prop(last.arg, "id") = Num(MaxId)
    /\ last.arg.rawPassword = Str("")
    /\ last.arg.firstName = Str("Bob")
    /\ "rawPassword" \notin DOMAIN PayloadOf(last)
    /\ PayloadOf(last).firstName = Str("Bob")

(***************************************************************************)
(* C15 -- the order edit view flattens the fetched order                   *)
(***************************************************************************)
\* C15: whenever the order edit view maps a fetched order, the form's initial
\* state has exactly the fields id, orderOwner and orderProducts: the id of the
\* order, the id of the owner (null when the order has no owner), and the ids
\* of the products, one per fetched product and in the same order.
C15_OrderFlattening ==
    (ent = "orders" /\ last.ev = "map") =>
        LET order == last.arg
            ids == initialFormState.orderProducts.v
        IN  /\ DOMAIN initialFormState = {"id", "orderOwner", "orderProducts"}
            /\ initialFormState.id = order.id
            /\ initialFormState.orderOwner =
                   IF order.orderOwner = Null THEN Null ELSE order.orderOwner.id
            /\ Len(ids) = Len(order.orderProducts.v)
            /\ \A k \in 1..Len(ids) : ids[k] = order.orderProducts.v[k].id
            /\ formState = initialFormState

C15_Witness ==
    /\ ent = "orders" /\ last.ev = "map"
    /\ last.arg.orderOwner = User(0)
    /\ Len(last.arg.orderProducts.v) = MaxProducts
    /\ last.arg.orderProducts.v[1] = Product(MaxId)
    /\ \A k \in 2..MaxProducts : last.arg.orderProducts.v[k] = Product(0)
    /\ initialFormState.orderOwner = Num(0)
    /\ initialFormState.orderProducts.v[1] = Num(MaxId)

(***************************************************************************)
(* C16 -- data flow between parent and form                                *)
(***************************************************************************)
\* parent to form: the copy is replaced, by a copy of the new initialData, in
\* the steps in which the parent assigns initialData, and changes otherwise
\* only when the operator edits a field; an edit leaves initialData and the
\* client state alone and emits nothing
ParentToForm ==
    /\ last'.ev \in {"parent-change", "map"} => formState' = initialFormState'
    /\ initialFormState' # initialFormState => last'.ev \in {"parent-change", "map"}
    /\ formState' # formState => last'.ev \in {"parent-change", "map", "field-edit"}
    /\ last'.ev = "field-edit" =>
         /\ UNCHANGED <<initialFormState, Client>>
         /\ last'.effects = <<>>

\* a submit emits one submitForm event and changes nothing
EmitsOnce ==
    last'.ev = "emit" =>
        /\ Len(last'.effects) = 1
        /\ last'.effects[1].do = "emit"
        /\ last'.arg = formState
        /\ UNCHANGED <<initialFormState, formState, Client>>

\* C16 as stated: data flows parent to form only when initialData is
\* assigned and form to parent only on submit; each submit emits exactly one
\* payload, which is a copy of the form's internal state.
C16_AsStated ==
    [][/\ ParentToForm
       /\ EmitsOnce
       /\ last'.ev = "emit" => PayloadOf(last') = formState]_vars

\* C16, amended: data flows parent to form only when initialData is assigned
\* and form to parent only on submit; each submit emits exactly one payload,
\* which is a copy of the form's internal state, except that the user form in
\* edit mode leaves an empty password out of it.
C16_OneDirectional ==
    [][/\ ParentToForm
       /\ EmitsOnce
       /\ last'.ev = "emit" =>
            IF ent = "users" /\ mode = "edit" /\ ~HasPassword(formState)
            THEN /\ DOMAIN PayloadOf(last') = DOMAIN formState \ {"rawPassword"}
                 /\ \A f \in DOMAIN PayloadOf(last') : PayloadOf(last')[f] = formState[f]
            ELSE PayloadOf(last') = formState]_vars

C16_Witness ==
    /\ last.ev = "emit"
    /\ ent = "users" /\ mode = "edit"
    /\ formState # initialFormState
    /\ Prop(initialFormState, "id") = Num(0)
    /\ formState.rawPassword = Str("")
    /\ PayloadOf(last) # formState
    /\ PayloadOf(last).email = formState.email

(***************************************************************************)
(* C17 -- the search operations of the order client                        *)
(***************************************************************************)
\* the store that the component of the step just taken works on
Store == stores[StoreOf(last.caller)]

\* the date range given to a search call (absent: no range was given)
GivenRange(l) ==
    IF l.op = "fetchOrdersByOwner" THEN l.arg.dateData ELSE l.arg

\* a search call issues one POST request that carries the given date range,
\* or {} when fetchOrdersByOwner is given none
IssuesOnePost ==
    (last'.ev = "call" /\ last'.op \in SearchOps) =>
        LET before == BagOfAll(Overlapped, stores[StoreOf(last'.caller)].inflight)
            after == Store'.inflight
        IN  \E c \in BagToSet(after) :
                /\ after = before (+) SetToBag({c})
                /\ c.op = last'.op /\ c.arg = last'.arg
                /\ c.request.method = "POST"
                /\ c.request.body = IF GivenRange(last') = Null THEN EmptyObject
                                    ELSE GivenRange(last')

IsSearchSettle(l) == l.ev = "settle" /\ l.op \in SearchOps

\* C17 as stated: fetchOrdersByOwner and fetchOrdersByDate each issue one POST
\* whose body is the given date range ({} when fetchOrdersByOwner gets none),
\* return the collection of the response if and only if the status is 200 or
\* 201, and otherwise return null with error set; they never raise and end
\* with loading false.
C17_AsStated ==
    [][/\ IssuesOnePost
       /\ IsSearchSettle(last') =>
            /\ last'.ret = last'.response.body
                   <=> HasStatus(last'.response, {200, 201})
            /\ ~HasStatus(last'.response, {200, 201})
                   => last'.ret = Null /\ IsMessage(Store'.error)
            /\ ~last'.raised
            /\ Store'.loading = FALSE]_vars

\* C17, amended: fetchOrdersByOwner and fetchOrdersByDate each issue one POST
\* whose body is the given date range ({} when fetchOrdersByOwner gets none),
\* return the collection of the response if and only if the status is 200 or
\* 201 and the body is readable, and otherwise (an unreadable body included)
\* return null with error set; they never raise and end with loading false.
C17_Search ==
    [][/\ IssuesOnePost
       /\ IsSearchSettle(last') =>
            /\ last'.ret = last'.response.body
                   <=> (HasStatus(last'.response, {200, 201})
                        /\ last'.response.readable)
            /\ ~(HasStatus(last'.response, {200, 201}) /\ last'.response.readable)
                   => last'.ret = Null /\ IsMessage(Store'.error)
            /\ ~last'.raised
            /\ Store'.loading = FALSE]_vars

C17_Witness ==
    /\ last.ev = "settle" /\ last.op = "fetchOrdersByOwner"
    /\ last.arg.dateData = Null
    /\ HasStatus(last.response, {200})
    /\ ~last.response.readable
    /\ last.ret = Null
    /\ IsMessage(Store.error)
    /\ ~Store.loading

(***************************************************************************)
(* C18 -- the collection is written by fetchAll only                       *)
(***************************************************************************)
\* C18: the all-items collection changes only in the step in which a fetchAll
\* settles successfully, and then to the collection of the response; the
\* steps that start or settle create, update, remove and fetchById, and the
\* handlers that resume after them, leave it as it is.
C18_OnlyFetchAllWrites ==
    [][/\ allItems' # allItems =>
            /\ IsSettle(last', "fetchAll")
            /\ ResponseOk(last'.response) /\ last'.response.readable
            /\ allItems' = last'.response.body
       /\ (last'.ev = "settle" /\ last'.op \in Mutations \cup {"fetchById"})
            => allItems' = allItems
       /\ last'.ev \in {"submit-add", "submit-edit", "click-delete", "resume"}
            => allItems' = allItems]_vars

C18_Witness ==
    /\ IsSettle(last, "create")
    /\ IsObject(last.ret)
    /\ Len(allItems.v) = MaxLen
    /\ \A n \in 1..Len(allItems.v) : allItems.v[n] # last.ret

(***************************************************************************)
(* C19 -- what the consumers of a client observe                           *)
(***************************************************************************)
\* what component k reads through the refs it holds
Observed(k) ==
    LET s == stores[StoreOf(k)]
    IN  [loading |-> s.loading, error |-> s.error, currentItem |-> s.currentItem,
         allItems |-> s.allItems]

SameForAll == \A k1 \in Consumers, k2 \in Consumers : Observed(k1) = Observed(k2)

OnlySettleClears ==
    (loading /\ ~loading') => (last'.ev = "settle" /\ last'.op \in Operations)

\* C20: when every issued request is answered or fails in the end, every
\* pending operation settles in the end and loading, once true, becomes false
\* again; whenever no request of the entity is pending loading is false; and
\* nothing but the settling of a call clears loading, so that loading stays
\* true for as long as no request is answered.
C20_LoadingCleared ==
    /\ [](inflight = EmptyBag => ~loading)
    /\ [][OnlySettleClears]_vars
    /\ loading ~> ~loading
    /\ \A op \in Operations :
           (\E c \in BagToSet(inflight) : c.op = op) ~> IsSettle(last, op)

C20_Witness ==
    /\ last.ev = "settle" /\ ~last.solo
    /\ last.response.kind = "reject"
    /\ inflight = EmptyBag
    /\ ~loading

(***************************************************************************)
(* C21 -- overlapping fetchById calls: the last response wins              *)
(***************************************************************************)
\* C21: no request is aborted (a pending request leaves the pending ones
\* only in the step that settles it) and none is fenced (a successful
\* fetchById response is stored as the current item whatever else is pending
\* and whatever the route shows), so the response that resolves last decides
\* the current item.
C21_LastResponseWins ==
    [][/\ last'.ev = "settle"
            => BagCardinality(inflight') = BagCardinality(inflight) - 1
       /\ last'.ev # "settle"
            => BagCardinality(inflight') >= BagCardinality(inflight)
       /\ (IsSettle(last', "fetchById") /\ ResponseOk(last'.response)
           /\ last'.response.readable)
            => currentItem' = last'.response.body]_vars

\* the route shows item MaxId, whose request was issued last and answered
\* first; the answer for item 0 came last and is what the view holds
C21_Witness ==
    /\ route = Route("info", ToString(MaxId))
    /\ IsSettle(last, "fetchById")
    /\ last.arg = Num(0) /\ ~last.solo
    /\ inflight = EmptyBag
    /\ currentItem = Item(ent, 0)
    /\ ~loading /\ error = Null

(***************************************************************************)
(* C22 -- which route parameters lead to a fetchById                       *)
(***************************************************************************)
IsLoad(l) == l.ev \in {"mount-view", "param-change"}

\* the step started a call
StartsFetch == BagCardinality(inflight') > BagCardinality(inflight)

\* the step started one fetchById, for id n
StartsFetchOf(n) ==
    \E c \in BagToSet(inflight') :
        /\ c.op = "fetchById" /\ c.arg = n
        /\ inflight' = BagOfAll(Overlapped, inflight) (+) SetToBag({c})

\* the first element of an array parameter, the parameter itself otherwise
FirstOf(id) == IF id.t = "array" THEN id.v[1] ELSE id

\* the parameter is present and (its first element) is the decimal string of a number
ParsesToNumber(id) ==
    /\ id # Undefined
    /\ FirstOf(id).t = "string"
    /\ \E n \in Ids : FirstOf(id).v = ToString(n)

NumberOf(id) == Num(CHOOSE n \in Ids : FirstOf(id).v = ToString(n))

\* C22 as stated: a detail, edit or delete view starts a fetchById only when
\* the route id is present and (its first element) parses to a number, and
\* then for that number; an absent or non-numeric id starts no request.
C22_AsStated ==
    [][IsLoad(last') =>
          IF ParsesToNumber(last'.arg)
          THEN StartsFetchOf(NumberOf(last'.arg))
          ELSE ~StartsFetch]_vars

\* C22, amended: an edit view starts a fetchById only when the route id is
\* present and (its first element) parses to a number, and then for that
\* number.  A detail or delete view that is mounted starts a fetchById
\* whatever the id is: for the number when (the first element of) the id
\* parses, for NaN when the id is absent or not numeric; when the id of a
\* mounted detail or delete view changes, an absent id starts no request and
\* every other id starts one in the same way.
C22_LoadsById ==
    [][IsLoad(last') =>
          IF ParsesToNumber(last'.arg)
          THEN StartsFetchOf(NumberOf(last'.arg))
          ELSE IF IsView(route', "edit")
                  \/ (last'.ev = "param-change" /\ last'.arg = Undefined)
               THEN ~StartsFetch
               ELSE StartsFetchOf(NaN)]_vars

C22_Witness ==
    /\ last.ev = "mount-view"
    /\ IsView(route, "delete")
    /\ last.arg = Str("abc")
    /\ \E c \in BagToSet(inflight) :
          /\ c.op = "fetchById" /\ c.arg = NaN
          /\ c.request = Request("GET", <<ent, "show", NaN>>, Undefined)
    /\ loading

(***************************************************************************)
(* C23 -- update requests of the edit views                                *)
(***************************************************************************)
\* the update calls of the edit views that are pending
UpdatesPending == {c \in BagToSet(inflight) : c.op = "edit" /\ c.caller = "EditView"}

\* the step is the edit view's handler going on after a successful update
UpdateSucceeded(l) == l.ev = "resume" /\ l.caller = "EditView" /\ Truthy(l.ret)

PushFailed(l) == \E k \in 1..Len(l.effects) : l.effects[k].do = "push-error"

\* C23: every update request issued from an edit view carries a defined
\* entity id (the payload's id is a number, never undefined), and the
\* navigation after a successful update targets a defined detail id.
C23_AsStated ==
    /\ \A c \in UpdatesPending : Prop(c.arg, "id").t = "number"
    /\ UpdateSucceeded(last) => ~PushFailed(last)

\* the fetch of the edit view failed, the blank form was filled in and
\* submitted, and the update it sent without an id was answered with 200
C23_Witness ==
    /\ UpdateSucceeded(last)
    /\ Prop(last.arg, "id") = Undefined
    /\ PushFailed(last)

(***************************************************************************)
(* C24 -- the order search view                                            *)
(***************************************************************************)
\* the search calls of the parent view that are pending in st
ParentSearches(st) == BagToSet(st["parent"].inflight)

HasFailedAlert(l) ==
    \E k \in 1..Len(l.effects) : l.effects[k] = Alert("The request failed.")

\* the step issued one request through the parent's client: call c
IssuesOneSearch(c) ==
    /\ stores'["parent"].inflight
          = BagOfAll(Overlapped, stores["parent"].inflight) (+) SetToBag({c})
    /\ c.caller = "SearchOrder"
    /\ c.request.method = "POST"

\* call c is the search that the route asks for, with the submitted dates
IsSearchOfRoute(c, formData) ==
    IF route.name = specificSearchName
    THEN /\ c.op = "fetchOrdersByOwner"
         /\ c.arg = [owner |-> Str(route.id), dateData |-> formData]
         /\ c.request.path = <<"orders", "show", "owner", ParseInt(route.id)>>
    ELSE /\ c.op = "fetchOrdersByDate"
         /\ c.arg = formData
         /\ c.request.path = <<"orders", "show", "time_range">>

\* a submit marks the search as attempted, records the submitted dates (an
\* empty one as null) and issues exactly one search request
SubmitSearches ==
    last'.ev = "search-submit" =>
        /\ search'.searchAttempted
        /\ search'.currentStartDate = OrElse(last'.arg.startDate, Null)
        /\ search'.currentEndDate = OrElse(last'.arg.endDate, Null)
        /\ \E c \in ParentSearches(stores') :
              IssuesOneSearch(c) /\ IsSearchOfRoute(c, last'.arg)
        /\ stores'["child"] = stores["child"]
        /\ stores'["users"] = stores["users"]

\* a search returns the collection of a readable 200 answer and null otherwise
SearchReturns ==
    last'.ev = "settle" /\ last'.caller = "SearchOrder" =>
        /\ ~last'.raised
        /\ last'.ret = IF last'.response.status = 200 /\ last'.response.readable
                       THEN last'.response.body ELSE Null
        /\ cont'.ret = last'.ret

\* what the search returned is published, with an alert when it is null
PublishesResult ==
    last'.ev = "resume" =>
        /\ search'.externalOrders = last'.ret
        /\ HasFailedAlert(last') <=> last'.ret = Null
        /\ UNCHANGED stores

\* no request of a child view is pending
ChildrenSilent ==
    stores["child"].inflight = EmptyBag /\ stores["users"].inflight = EmptyBag

\* the rendered child displays what the parent published
DisplaysPublished ==
    route.name \in {specificSearchName, dateSearchName} =>
        OrdersToDisplay = OrElse(search.externalOrders, Arr(<<>>))

ChildLoads ==
    /\ \E c \in BagToSet(stores'["users"].inflight) :
          /\ stores'["users"].inflight
                = BagOfAll(Overlapped, stores["users"].inflight) (+) SetToBag({c})
          /\ c.op = "fetchUserById"
          /\ c.arg = ParseInt(route'.id)
    /\ \E c \in BagToSet(stores'["child"].inflight) :
          /\ stores'["child"].inflight = SetToBag({c})
          /\ c.op = "fetchOrdersByOwner"
          /\ c.arg = [owner |-> Str(route'.id), dateData |-> Null]
          /\ c.request.body = EmptyObject
    /\ stores'["parent"] = stores["parent"]

ChildMounts ==
    last'.ev = "search-navigate" =>
        IF route'.name = specificSearchName /\ route.name # specificSearchName
        THEN ChildLoads
        ELSE UNCHANGED stores

\* what each child displays: the by-date child the published result, or an
\* empty list when it is null; the by-owner child the published result when
\* it is not null, and the result of its own request otherwise
ChildDisplays ==
    /\ route.name = dateSearchName =>
          OrdersToDisplay = OrElse(search.externalOrders, Arr(<<>>))
    /\ route.name = specificSearchName =>
          OrdersToDisplay = IF search.externalOrders # Null
                            THEN search.externalOrders
                            ELSE stores["child"].ordersByOwner

Recorded(formData) ==
    [start |-> OrElse(formData.startDate, Null), end |-> OrElse(formData.endDate, Null)]

\* the date range the parent provides to its children
ProvidedRange == [start |-> search.currentStartDate, end |-> search.currentEndDate]

\* the dates of search call c
RangeOf(c) == IF c.op = "fetchOrdersByOwner" THEN c.arg.dateData ELSE c.arg

\* C30: the displayed date range is written when a search is submitted,
\* before its request is awaited, and the displayed result set when the
\* request has resolved; the search form is not disabled at any time, a
\* pending search included.
C30_SeparateWrites ==
    [][/\ last'.ev = "search-submit" =>
             /\ ProvidedRange' = Recorded(last'.arg)
             /\ search'.externalOrders = search.externalOrders
       /\ last'.ev = "settle" => UNCHANGED search
       /\ last'.ev = "resume" =>
             /\ ProvidedRange' = ProvidedRange
             /\ search'.externalOrders = last'.ret
       /\ ~SearchFormDisabled(stores')]_vars

\* two searches overlapped and the one submitted first resolved last: nothing
\* is pending, the by-date child shows the range of the second search with
\* the orders that the first search returned
C30_Witness ==
    /\ last.ev = "resume"
    /\ last.op = "fetchOrdersByDate"
    /\ route.name = dateSearchName
    /\ SearchPending = 0
    /\ cont = Idle
    /\ search.searchAttempted
    /\ OrdersToDisplay = last.ret
    /\ last.ret = Arr(<<Order(MaxId)>>)
    /\ Recorded(RangeOf(last)) # ProvidedRange
    /\ DateRangeDisplay.text = "up to"
    /\ Recorded(RangeOf(last)).start # Null

(***************************************************************************)
(* C25 -- nothing is retried                                               *)
(***************************************************************************)
\* the steps in which the operator acts or the route changes
UserEvents == {"navigate", "param-change", "mount", "submit-add", "submit-edit",
               "click-delete"}

HasPush(l) == \E k \in 1..Len(l.effects) : l.effects[k].do = "push"

\* C25: nothing is retried.  Each step issues at most one request (one per
\* operation call); the step that settles a call takes its request away and
\* issues none, whatever the answer was; the handler that goes on after a
\* failed call issues none either; a request is issued only in a step of the
\* operator (submit, click, navigation) or by the route change that follows a
\* successful call.
C25_NothingRetried ==
    [][/\ BagCardinality(inflight') <= BagCardinality(inflight) + 1
       /\ last'.ev = "settle" =>
             BagCardinality(inflight') = BagCardinality(inflight) - 1
       /\ last'.ev = "resume" /\ ~Truthy(last'.ret) => inflight' = inflight
       /\ BagCardinality(inflight') > BagCardinality(inflight) =>
             \/ last'.ev \in UserEvents
             \/ last'.ev = "resume" /\ HasPush(last') /\ route' # route]_vars

\* a create failed, the add view went on after it, and no request is pending
C25_Witness ==
    /\ last.ev = "resume"
    /\ last.caller = "AddView"
    /\ last.ret = Null
    /\ Truthy(error)
    /\ inflight = EmptyBag
    /\ ~loading

(***************************************************************************)
(* C26 -- loading is one flag                                              *)
(***************************************************************************)
\* C26: loading is one boolean, not a count of requests: the step that issues
\* a request sets it, and the step that settles a call clears it whether or
\* not another request is still pending; while it is false a view renders
\* the error, the item or the empty state.
C26_OneFlag ==
    [][/\ loading' \in BOOLEAN
       /\ BagCardinality(inflight') > BagCardinality(inflight) => loading'
       /\ last'.ev = "settle" => ~loading'
       /\ ~loading' => Rendered(State') \in {"error", "data", "empty"}]_vars

\* a fetchAll and a fetchById overlapped; the fetchAll failed first, and the
\* detail view renders the error while the fetchById is still pending
C26_Witness ==
    /\ IsSettle(last, "fetchAll")
    /\ ~last.solo
    /\ Pending(inflight, "fetchById") = 1
    /\ ~loading
    /\ IsView(route, "info")
    /\ Rendered(State) = "error"

(***************************************************************************)
(* C27 -- error is one value shared by the operations                      *)
(***************************************************************************)
\* what the try block of operation op does with the answer r
TryOf(op, r) ==
    CASE op = "fetchAll"  -> fetchAllTry(r)
      [] op = "fetchById" -> fetchByIdTry(r)
      [] op = "create"    -> createTry(r)
      [] op = "edit"      -> editTry(r)
      [] op = "delete"    -> deleteTry(r)

\* the step settled a call that failed
SettledFailing(l) == l.ev = "settle" /\ TryOf(l.op, l.response).threw

\* C27: error is one value shared by all operations of the entity.  It
\* becomes null only in a step that starts an operation; a call that fails
\* writes its message whatever was there; a call that succeeds leaves it as
\* it is.  So a non-null error is the message of the failing call that
\* settled last, and it can stand next to a loaded current item, in which
\* case the detail view renders the error.
C27_SharedError ==
    [][/\ error # Null /\ error' = Null =>
             BagCardinality(inflight') > BagCardinality(inflight)
       /\ BagCardinality(inflight') > BagCardinality(inflight) => error' = Null
       /\ SettledFailing(last') =>
             /\ error' = CatchMessage(ent, last'.op,
                                      TryOf(last'.op, last'.response).err)
             /\ error' # Null
       /\ last'.ev = "settle" /\ ~SettledFailing(last') => error' = error
       /\ error' # error /\ error' # Null => SettledFailing(last')]_vars

\* a fetchAll that was issued first failed, then the fetchById of the detail
\* view succeeded: the item is loaded and the view renders the error
C27_Witness ==
    /\ IsSettle(last, "fetchById")
    /\ ~SettledFailing(last)
    /\ ~last.solo
    /\ IsView(route, "info")
    /\ inflight = EmptyBag
    /\ Truthy(currentItem)
    /\ ContainsStatus(error, 404)
    /\ Rendered(State) = "error"

(***************************************************************************)
(* C28 -- the form of an edit view keeps the entity mapped before          *)
(***************************************************************************)
\* the update call that the step issued
IssuedUpdates ==
    {c \in BagToSet(inflight') :
        /\ c.op = "edit" /\ c.caller = "EditView"
        /\ inflight' = BagOfAll(Overlapped, inflight) (+) SetToBag({c})}

\* C28: while an edit view stays mounted, its initial form state is replaced
\* only when the current item becomes non-null, and then by the mapping of
\* that item: a current item that becomes null (a fetch for a new route id
\* that is pending or has failed) leaves the form as it was.  A submit sends
\* the update for the id that the form holds, whatever the id in the route.
C28_FormKeepsEntity ==
    [][/\ IsView(route, "edit") /\ route'.name = route.name =>
             initialFormState' =
                 IF currentItem' # currentItem /\ Truthy(currentItem')
                 THEN MapToForm(currentItem')
                 ELSE initialFormState
       /\ last'.ev = "submit-edit"
          /\ BagCardinality(inflight') > BagCardinality(inflight) =>
             /\ IssuedUpdates # {}
             /\ \A c \in IssuedUpdates :
                   Prop(c.arg, "id") = Prop(initialFormState, "id")]_vars

\* the edit view was reused for another id, the fetch for that id failed, and
\* the form is submitted: the update carries the id of the entity loaded before
C28_Witness ==
    /\ last.ev = "submit-edit"
    /\ IsView(route, "edit")
    /\ route.id = "0"
    /\ \E c \in BagToSet(inflight) :
          /\ c.op = "edit" /\ c.caller = "EditView"
          /\ c.arg.id = Num(1)
          /\ c.request.body.id = Num(1)
    /\ initialFormState.id = Num(1)

(***************************************************************************)
(* C29 -- a delete attempt consumes the loaded item                        *)
(***************************************************************************)
\* the step settled a remove that failed
RemoveFailed(l) == IsSettle(l, "delete") /\ SettledFailing(l)

\* the delete button comes back in a delete view through a fetchById that
\* succeeds, and through nothing else
ButtonReturns ==
    IsView(route', "delete") /\ ~DeleteButtonShown(State) /\ DeleteButtonShown(State')
        => IsSettle(last', "fetchById") /\ ~SettledFailing(last')

\* C29: a delete attempt consumes the loaded item: remove clears the current
\* item at its start and never restores it, so after a failed remove the
\* delete view holds no current item and a non-null error, renders the
\* "could not be loaded" state without the delete button, and a second
\* attempt is impossible until a new fetchById for the entity succeeds.
C29_AsStated ==
    [][/\ last'.ev = "click-delete"
          /\ BagCardinality(inflight') > BagCardinality(inflight) =>
             currentItem' = Null
       /\ RemoveFailed(last') =>
             /\ currentItem' = Null
             /\ Truthy(error')
             /\ Rendered(State') = "error"
             /\ ~DeleteButtonShown(State')
       /\ ButtonReturns]_vars

\* C29, amended: remove clears the current item at its start and its own
\* settling never restores it, so after a failed remove the delete view holds
\* a non-null error and renders the "could not be loaded" state without the
\* delete button, and it holds no current item when no other call overlapped
\* the remove (a fetchById pending together with the remove may have stored
\* its item in between); the button comes back only through a fetchById that
\* succeeds.
C29_DeleteConsumes ==
    [][/\ last'.ev = "click-delete"
          /\ BagCardinality(inflight') > BagCardinality(inflight) =>
             currentItem' = Null
       /\ RemoveFailed(last') =>
             /\ currentItem' = currentItem
             /\ last'.solo => currentItem' = Null
             /\ Truthy(error')
             /\ Rendered(State') = "error"
             /\ ~DeleteButtonShown(State')
       /\ ButtonReturns]_vars

\* a remove that nothing overlapped has failed: no item, an error, no button
C29_Witness ==
    /\ RemoveFailed(last)
    /\ last.solo
    /\ IsView(route, "delete")
    /\ inflight = EmptyBag
    /\ currentItem = Null
    /\ ContainsStatus(error, 404)
    /\ Rendered(State) = "error"
    /\ ~DeleteButtonShown(State)

====
